---- MODULE Spec2Model ----
(***************************************************************************)
(* Model of the /api/translate handler of api_server.py (retry loop with   *)
(* exponential backoff around the translation provider) and of the         *)
(* persistence it performs through TranslationRepository (database.py):    *)
(* create_or_get_user, save_translation and log_system_action, statement   *)
(* by statement on the autocommitting MySQL connection; of the favorite    *)
(* toggle (set_favorite_language_pair) and of the read side (daily         *)
(* activity of get_comprehensive_user_statistics, trend of                 *)
(* get_daily_analytics).                                                   *)
(*                                                                         *)
(* Strings are represented by their shape: a run of leading whitespace, a  *)
(* core that starts and ends with a non-whitespace character, and a run of *)
(* trailing whitespace.  The core length also tells texts apart.           *)
(* FLOAT columns are exact rationals <<numerator, denominator>>.           *)
(* Timestamps are whole hours since an epoch: created_at of translations   *)
(* and last_used of user_language_stats.  last_login is not represented.   *)
(***************************************************************************)
EXTENDS Integers, Sequences, FiniteSets, TLC

\* ------------------------------------------------------------------ bounds
\* number of concurrently served translate requests
NumReq == 2

\* number of days that the recorded history of a user goes back
MaxHistoryDays == 105

\* longest daily series handed to the trend computation
MaxPoints == 15

\* number of storage errors (mysql.connector.Error out of cursor.execute for
\* a reason other than a key constraint) that one behaviour may contain
MaxFaults == 1

\* texts in a batch request
MaxTexts == 3

Req == 1..NumReq

\* ------------------------------------------------------- program constants
\* LIMIT 90 of the daily activity query
DAILY_LIMIT == 90

TOP_LIMIT == 20

MAX_TEXT_LENGTH == 5000

MoreRetries == 5 + 1

max_retries == 5

\* ------------------------------------------------------------------ values
NoneVal == "None"

\* googletrans.LANGUAGES restricted to two entries: code -> name
LANGUAGES == [en |-> "english", es |-> "spanish"]

ANONYMOUS == "anonymous@translator.app"

Str(lead, core, trail) == [kind |-> "str", lead |-> lead, core |-> core, trail |-> trail]

\* JSON null / Python None, and a key that is missing from the JSON body
NullText == [kind |-> "null", lead |-> 0, core |-> 0, trail |-> 0]

AbsentText == [kind |-> "absent", lead |-> 0, core |-> 0, trail |-> 0]

EmptyStr == Str(0, 0, 0)

\* len(s)
Len_(s) == s.lead + s.core + s.trail

\* str.strip(): removes the leading and the trailing whitespace run
Strip(s) == Str(0, s.core, 0)

\* truthiness of a Python str
Truthy(s) == s.kind = "str" /\ Len_(s) > 0

\* ----------------------------------------------------------------- rationals
RECURSIVE GCD(_, _)
GCD(a, b) == IF b = 0 THEN a ELSE GCD(b, a % b)

Rat(n, d) == LET g == GCD(n, d) IN IF n = 0 THEN <<0, 1>> ELSE <<n \div g, d \div g>>

RatInt(n) == <<n, 1>>

RatAdd(p, q) == Rat(p[1] * q[2] + q[1] * p[2], p[2] * q[2])

RatMulInt(p, k) == Rat(p[1] * k, p[2])

RatDivInt(p, k) == Rat(p[1], p[2] * k)

RatSub(p, q) == Rat(p[1] * q[2] - q[1] * p[2], p[2] * q[2])

\* what a Python division by zero leaves instead of a number
ZeroDivisionError == <<0, 0>>

\* p / q of two non-negative numbers
PyDiv(p, q) == IF q[1] = 0 THEN ZeroDivisionError ELSE Rat(p[1] * q[2], p[2] * q[1])

Unrounded(x) == x

\* round(x, 2): the multiple of 0.01 nearest to x, the even one of two that
\* are equally near
Round2(x) ==
  LET q == (100 * x[1]) \div x[2]
      r == (100 * x[1]) % x[2]
  IN IF x = ZeroDivisionError THEN x
     ELSE IF 2 * r < x[2] THEN Rat(q, 100)
     ELSE IF 2 * r > x[2] THEN Rat(q + 1, 100)
     ELSE IF q % 2 = 0 THEN Rat(q, 100) ELSE Rat(q + 1, 100)

\* min(a, b)
Min(a, b) == IF a < b THEN a ELSE b

RECURSIVE Sum(_)
Sum(q) == IF q = <<>> THEN 0 ELSE Head(q) + Sum(Tail(q))

\* the Python slice q[a:b]
Slice(q, a, b) == SubSeq(q, a + 1, Min(b, Len(q)))

\* ------------------------------------------------------------------- inputs
\* request bodies: the text field
InputTexts ==
  { AbsentText, NullText, EmptyStr, Str(1, 0, 0), Str(1, 5, 1),
    Str(1, MAX_TEXT_LENGTH, 1), Str(0, MAX_TEXT_LENGTH + 1, 0) }

SourceCodes == {NoneVal, "en", "zz"}

SourceNames == {NoneVal, "english", "klingon"}

TargetCodes == {NoneVal, "es", "zz"}

TargetNames == {NoneVal, "spanish"}

HeaderEmails == {NoneVal, "u1"}

BodyEmails == {NoneVal, "u2"}

Inputs ==
  [ has_data : BOOLEAN, text : InputTexts,
    source_lang : SourceCodes, source_lang_name : SourceNames,
    target_lang : TargetCodes, target_lang_name : TargetNames,
    header_email : HeaderEmails, body_email : BodyEmails ]

\* what one call of Translator.translate can do: raise, return None, return
\* an object without a text attribute, or return an object with a text
\* (empty, blank, or a translation) and possibly a confidence
NoResult == [kind |-> "unset", text |-> NullText, confidence |-> <<0, 1>>]

Raised == [kind |-> "raise", text |-> NullText, confidence |-> <<0, 1>>]

Obj(t, c) == [kind |-> "obj", text |-> t, confidence |-> c]

Results ==
  { Raised,
    [kind |-> "none", text |-> NullText, confidence |-> <<0, 1>>],
    [kind |-> "notext", text |-> NullText, confidence |-> <<0, 1>>],
    Obj(EmptyStr, <<0, 1>>), Obj(Str(2, 0, 0), <<0, 1>>),
    Obj(Str(0, 4, 0), <<0, 1>>), Obj(Str(1, 6, 1), Rat(95, 100)) }

\* duration of one provider call, in milliseconds
Durations == {120, 180}

\* ----------------------------------------------------------------- database
AutocommitOff == FALSE

\* Database.connect opens the one shared connection with autocommit=True
Autocommit == TRUE

Emails == {"u1", "u2", ANONYMOUS}

NoUniqueKey == FALSE

\* UNIQUE KEY unique_user_pair (user_email, language_pair) of user_language_stats
unique_user_pair == TRUE

\* DATE(ts) and HOUR(ts) of a timestamp in hours
DateOf(ts) == ts \div 24

HourOf(ts) == ts % 24

\* the instant at which the request specifications run: day 1000, 10 o'clock
T0 == 1000 * 24 + 10

\* a freshly provisioned schema (create_tables): no rows, AUTO_INCREMENT at 1
EmptyDb ==
  [ users |-> <<>>, translations |-> <<>>, next_id |-> 1, stats |-> <<>>,
    system_logs |-> <<>> ]

\* INSERT INTO users (email, ...): the counters take their DEFAULT 0
SqlInsertUser(d, email) ==
  [d EXCEPT !.users = (email :> [total_translations |-> 0, total_characters |-> 0]) @@ @]

\* INSERT INTO translations (...): id is the AUTO_INCREMENT value
\* and created_at takes its DEFAULT CURRENT_TIMESTAMP (ts)
SqlInsertTranslation(d, email, pair, original, translated, cc, ms, conf, ts) ==
  [d EXCEPT
     !.translations = Append(@,
        [ id |-> d.next_id, user_email |-> email, language_pair |-> pair,
          original_text |-> original, translated_text |-> translated,
          character_count |-> cc, translation_time_ms |-> ms,
          confidence_score |-> conf, created_at |-> ts ]),
     !.next_id = @ + 1]

\* UPDATE users SET total_translations = total_translations + 1,
\*                  total_characters = total_characters + cc WHERE email = ...
SqlUpdateUserStats(d, email, cc) ==
  IF email \in DOMAIN d.users
  THEN [d EXCEPT !.users[email] =
          [ total_translations |-> @.total_translations + 1,
            total_characters |-> @.total_characters + cc ]]
  ELSE d

UpdatedLanguageStatOldCount(row, cc, ms, conf, ts) ==
  LET n == row.translation_count
  IN [ row EXCEPT
       !.translation_count = n + 1,
       !.character_count = row.character_count + cc,
       !.avg_translation_time =
          RatDivInt(RatAdd(RatMulInt(row.avg_translation_time, n - 1), RatInt(ms)), n),
       !.total_translation_time = row.total_translation_time + ms,
       !.avg_confidence_score =
          RatDivInt(RatAdd(RatMulInt(row.avg_confidence_score, n - 1), conf), n),
       !.last_used = ts ]

\* the ON DUPLICATE KEY UPDATE assignments run left to right, so the two
\* averages are computed with the already incremented translation_count
UpdatedLanguageStat(row, cc, ms, conf, ts) ==
  LET n == row.translation_count + 1
  IN [ row EXCEPT
       !.translation_count = n,
       !.character_count = row.character_count + cc,
       !.avg_translation_time =
          RatDivInt(RatAdd(RatMulInt(row.avg_translation_time, n - 1), RatInt(ms)), n),
       !.total_translation_time = row.total_translation_time + ms,
       !.avg_confidence_score =
          RatDivInt(RatAdd(RatMulInt(row.avg_confidence_score, n - 1), conf), n),
       !.last_used = ts ]

NewFavoriteLanguageStat(email, pair, cc, ms, conf, ts) ==
  [ user_email |-> email, language_pair |-> pair,
    translation_count |-> 1, character_count |-> cc,
    avg_translation_time |-> RatInt(ms), total_translation_time |-> ms,
    avg_confidence_score |-> conf, favorite_pair |-> TRUE, last_used |-> ts ]

\* the VALUES (...) row of the upsert; favorite_pair takes its DEFAULT FALSE
NewLanguageStat(email, pair, cc, ms, conf, ts) ==
  [ user_email |-> email, language_pair |-> pair,
    translation_count |-> 1, character_count |-> cc,
    avg_translation_time |-> RatInt(ms), total_translation_time |-> ms,
    avg_confidence_score |-> conf, favorite_pair |-> FALSE, last_used |-> ts ]

\* the rows of user_language_stats that the key (email, pair) selects
StatRows(d, email, pair) ==
  { i \in DOMAIN d.stats :
      d.stats[i].user_email = email /\ d.stats[i].language_pair = pair }

\* INSERT INTO user_language_stats ... ON DUPLICATE KEY UPDATE ...: the insert
\* collides with a row of the same (user_email, language_pair) because of
\* UNIQUE KEY unique_user_pair, and the colliding row is updated instead
SqlUpsertLanguageStats(d, email, pair, cc, ms, conf, ts) ==
  IF unique_user_pair /\ StatRows(d, email, pair) # {}
  THEN [d EXCEPT !.stats =
          [ i \in DOMAIN @ |->
              IF i \in StatRows(d, email, pair)
              THEN UpdatedLanguageStat(@[i], cc, ms, conf, ts) ELSE @[i] ]]
  ELSE [d EXCEPT !.stats = Append(@, NewLanguageStat(email, pair, cc, ms, conf, ts))]

\* INSERT INTO system_logs (...)
SqlInsertLog(d, email, action, status, ms) ==
  [d EXCEPT !.system_logs = Append(@,
      [ user_email |-> email, action |-> action, status_code |-> status,
        response_time_ms |-> ms ])]

DeleteFavorites(d, email) ==
  [d EXCEPT !.stats = SelectSeq(@, LAMBDA row : row.user_email # email \/ ~row.favorite_pair)]

\* UPDATE user_language_stats SET favorite_pair = FALSE WHERE user_email = ...
SqlClearFavorites(d, email) ==
  [d EXCEPT !.stats =
     [ i \in DOMAIN @ |->
         IF @[i].user_email = email THEN [@[i] EXCEPT !.favorite_pair = FALSE] ELSE @[i] ]]

\* UPDATE user_language_stats SET favorite_pair = ...
\* WHERE user_email = ... AND language_pair = ...
SqlSetFavorite(d, email, pair, is_favorite) ==
  [d EXCEPT !.stats =
     [ i \in DOMAIN @ |->
         IF @[i].user_email = email /\ @[i].language_pair = pair
         THEN [@[i] EXCEPT !.favorite_pair = is_favorite] ELSE @[i] ]]

DeleteAllTranslations(d, email) == [d EXCEPT !.translations = <<>>]

\* DELETE FROM translations WHERE user_email = ...
SqlDeleteTranslations(d, email) ==
  [d EXCEPT !.translations = SelectSeq(@, LAMBDA t : t.user_email # email)]

\* UPDATE users SET total_translations = 0, total_characters = 0 WHERE email = ...
SqlResetUserStats(d, email) ==
  IF email \in DOMAIN d.users
  THEN [d EXCEPT !.users[email] = [ total_translations |-> 0, total_characters |-> 0 ]]
  ELSE d

\* DELETE FROM user_language_stats WHERE user_email = ...
SqlDeleteLanguageStats(d, email) ==
  [d EXCEPT !.stats = SelectSeq(@, LAMBDA row : row.user_email # email)]

\* -------------------------------------------------------------------- state
VARIABLES
  DATABASE_AVAILABLE, \* module global set by initialize_database
  db,                 \* what statements on the shared connection see
  durable,            \* what has been committed
  pc,                 \* position of each request in translate
  input,              \* the request body and headers
  text,               \* data.get('text', '').strip()
  source_lang, target_lang,
  attempt,            \* loop variable of the retry loop
  result,             \* last object returned by Translator.translate
  wait_time,          \* seconds to sleep before the next attempt
  elapsed,            \* time.time() - start_time, in milliseconds
  translated_text, translation_time_ms, user_email,
  user,               \* truthiness of create_or_get_user's return value
  resp,               \* the response returned to the caller
  calls,              \* number of provider calls made by the request
  sleeps,             \* the wait times slept by the request, in order
  last_call_ms,       \* duration of the request's latest provider call
  raised,             \* database statements of the request that raised
  appended,           \* ids of the translations rows the request inserted
  aggregated,         \* aggregate statements the request executed
  faults,             \* number of storage errors so far
  db0,                \* the database when the behaviour started
  now,                \* the clock of the database server, NOW()
  fav,                \* each favorite request: position, arguments, response
  daily_data,         \* get_daily_analytics: the fetched rows' translations
  analytics,          \* get_daily_analytics: the returned summary
  statistics,         \* get_comprehensive_user_statistics: the returned value
  language_analytics, \* get_language_analytics: the returned value
  dashboard_data,     \* get_user_dashboard_data: the returned value
  clear,              \* the history-clear request: position, arguments, response
  batch               \* the batch request: position, arguments, entries, response

vars ==
  << DATABASE_AVAILABLE, db, durable, pc, input, text, source_lang, target_lang,
     attempt, result, wait_time, elapsed, translated_text, translation_time_ms,
     user_email, user, resp, calls, sleeps, last_call_ms, raised, appended,
     aggregated, faults, db0, now, fav, daily_data, analytics, statistics, language_analytics,
     dashboard_data, clear, batch >>

dbVars == << db, durable >>

loopVars == << attempt, result, wait_time, elapsed, calls, sleeps, last_call_ms >>

inputVars == << input, text, source_lang, target_lang >>

saveVars == << translated_text, translation_time_ms, user_email >>

ghostVars == << raised, appended, aggregated, faults >>

\* the state of the translate handler: everything but the database
translateVars ==
  << pc, inputVars, loopVars, saveVars, user, resp, appended, aggregated >>

favVars == << fav >>

\* the history-clear request and the batch request
bulkVars == << clear, batch >>

readVars ==
  << daily_data, analytics, statistics, language_analytics, dashboard_data >>

\* what the translate handler never touches
otherVars == << now, favVars, readVars, bulkVars >>

NoInput ==
  [ has_data |-> FALSE, text |-> AbsentText, source_lang |-> NoneVal,
    source_lang_name |-> NoneVal, target_lang |-> NoneVal,
    target_lang_name |-> NoneVal, header_email |-> NoneVal, body_email |-> NoneVal ]

NoResponse ==
  [ status |-> 0, success |-> FALSE, error |-> "", translated_text |-> NullText,
    translation_time_ms |-> 0, character_count |-> 0, database_saved |-> FALSE ]

ErrorResponse(status, error) ==
  [NoResponse EXCEPT !.status = status, !.error = error]

\* ------------------------------------------------------------- validation
\* get_language_code: name -> code, or the name itself when it is unknown
get_language_code(language_name) ==
  IF \E c \in DOMAIN LANGUAGES : LANGUAGES[c] = language_name
  THEN CHOOSE c \in DOMAIN LANGUAGES : LANGUAGES[c] = language_name
  ELSE language_name

AnyLanguageCode(lang_code) == lang_code # NoneVal

validate_language_code(lang_code) == lang_code \in DOMAIN LANGUAGES

\* data.get('text', ''): the default only replaces a missing key
GetText(in) == IF in.text.kind = "absent" THEN EmptyStr ELSE in.text

\* source_lang / target_lang after the fallback to the *_name field
ResolveLang(code, name) ==
  IF code # NoneVal THEN code
  ELSE IF name # NoneVal THEN get_language_code(name)
  ELSE NoneVal

\* the checks of translate before the retry loop, in the order of the code;
\* "" means that the request passed them all
ValidationError(in) ==
  IF ~in.has_data THEN "No JSON data provided"
  ELSE IF GetText(in).kind = "null" THEN "AttributeError"
  ELSE IF ~Truthy(Strip(GetText(in))) THEN "Text field is required"
  ELSE IF Len_(Strip(GetText(in))) > MAX_TEXT_LENGTH THEN "Text exceeds maximum length"
  ELSE IF ResolveLang(in.source_lang, in.source_lang_name) = NoneVal
       THEN "source_lang or source_lang_name is required"
  ELSE IF ResolveLang(in.target_lang, in.target_lang_name) = NoneVal
       THEN "target_lang or target_lang_name is required"
  ELSE IF ~validate_language_code(ResolveLang(in.source_lang, in.source_lang_name))
       THEN "Invalid source language"
  ELSE IF ~validate_language_code(ResolveLang(in.target_lang, in.target_lang_name))
       THEN "Invalid target language"
  ELSE ""

\* an exception before the loop is caught by the outer handler: 500
ValidationStatus(in) == IF ValidationError(in) = "AttributeError" THEN 500 ELSE 400

ValidResultUnstripped(res) ==
  /\ res.kind = "obj"
  /\ Truthy(res.text)

\* if result and hasattr(result, 'text') and result.text and result.text.strip()
ValidResult(res) ==
  /\ res.kind = "obj"
  /\ Truthy(res.text)
  /\ Truthy(Strip(res.text))

BackoffDelayNoBase(a) == 2 ^ a

\* wait_time = (2 ** attempt) * 2
BackoffDelay(a) == (2 ^ a) * 2

MayRetryOnceMore(a) == a < max_retries

\* if attempt < max_retries - 1: sleep and retry, else give up
MayRetry(a) == a < max_retries - 1

UNAVAILABLE == "Translation service is temporarily unavailable. Please try again in a moment."

INVALID_RESPONSE == "Translation service returned an invalid response. Please try again."

EMPTY_RESULT == "Translation service returned empty result. Please try again."

\* X-User-Email header, else user_email of the body, else the anonymous user
UserEmailOf(in) ==
  IF in.header_email # NoneVal THEN in.header_email
  ELSE IF in.body_email # NoneVal THEN in.body_email
  ELSE ANONYMOUS

\* ------------------------------------------------------- the translate handler
single_threaded == FALSE

\* app.run(...) is called without threaded=, which the development server
\* takes as threaded=True: every request is handled on a thread of its own
threaded == TRUE

\* a request is taken up at once by its own thread, or, on a server with one
\* thread, when no other handler is running
Accepted(r) == threaded \/ \A q \in Req \ {r} : pc[q] \in {"idle", "done"}

\* request.get_json() and the input checks (api_server.py 191-237)
Receive(r, ins) ==
  /\ pc[r] = "idle"
  /\ Accepted(r)
  /\ \E in \in ins :
       /\ input' = [input EXCEPT ![r] = in]
       /\ IF ValidationError(in) # ""
          THEN /\ resp' = [resp EXCEPT ![r] =
                     ErrorResponse(ValidationStatus(in), ValidationError(in))]
               /\ pc' = [pc EXCEPT ![r] = "done"]
               /\ UNCHANGED << text, source_lang, target_lang >>
          ELSE /\ text' = [text EXCEPT ![r] = Strip(GetText(in))]
               /\ source_lang' = [source_lang EXCEPT ![r] =
                     ResolveLang(in.source_lang, in.source_lang_name)]
               /\ target_lang' = [target_lang EXCEPT ![r] =
                     ResolveLang(in.target_lang, in.target_lang_name)]
               /\ pc' = [pc EXCEPT ![r] = "call"]
               /\ UNCHANGED resp
  /\ UNCHANGED << DATABASE_AVAILABLE, dbVars, loopVars, saveVars, user, ghostVars, db0, otherVars >>

\* one iteration of the retry loop up to the sleep (api_server.py 239-263)
ProviderCall(r, results, durations) ==
  /\ pc[r] = "call"
  /\ \E res \in results, d \in durations :
       /\ calls' = [calls EXCEPT ![r] = @ + 1]
       /\ elapsed' = [elapsed EXCEPT ![r] = @ + d]
       /\ last_call_ms' = [last_call_ms EXCEPT ![r] = d]
       /\ result' = [result EXCEPT ![r] = IF res.kind = "raise" THEN @ ELSE res]
       /\ IF res.kind # "raise" /\ ValidResult(res)
          THEN /\ pc' = [pc EXCEPT ![r] = "post_loop"]
               /\ UNCHANGED << wait_time, resp >>
          ELSE IF MayRetry(attempt[r])
          THEN /\ wait_time' = [wait_time EXCEPT ![r] = BackoffDelay(attempt[r])]
               /\ pc' = [pc EXCEPT ![r] = "sleep"]
               /\ UNCHANGED resp
          ELSE /\ resp' = [resp EXCEPT ![r] = ErrorResponse(503, UNAVAILABLE)]
               /\ pc' = [pc EXCEPT ![r] = "done"]
               /\ UNCHANGED wait_time
  /\ UNCHANGED << DATABASE_AVAILABLE, dbVars, inputVars, attempt, sleeps, saveVars,
                  user, ghostVars, db0, otherVars >>

\* time.sleep(wait_time), then the loop moves on to the next attempt
Sleep(r) ==
  /\ pc[r] = "sleep"
  /\ sleeps' = [sleeps EXCEPT ![r] = Append(@, wait_time[r])]
  /\ elapsed' = [elapsed EXCEPT ![r] = @ + wait_time[r] * 1000]
  /\ attempt' = [attempt EXCEPT ![r] = @ + 1]
  /\ pc' = [pc EXCEPT ![r] = "call"]
  /\ UNCHANGED << DATABASE_AVAILABLE, dbVars, inputVars, result, wait_time, calls,
                  last_call_ms, saveVars, user, resp, ghostVars, db0, otherVars >>

\* after the loop: the fallback checks, the trimmed text and the latency
\* (api_server.py 265-288)
PostLoop(r) ==
  /\ pc[r] = "post_loop"
  /\ IF ~ValidResult(result[r])
     THEN /\ resp' = [resp EXCEPT ![r] = ErrorResponse(503, INVALID_RESPONSE)]
          /\ pc' = [pc EXCEPT ![r] = "done"]
          /\ UNCHANGED saveVars
     ELSE IF ~Truthy(Strip(result[r].text))
     THEN /\ resp' = [resp EXCEPT ![r] = ErrorResponse(503, EMPTY_RESULT)]
          /\ pc' = [pc EXCEPT ![r] = "done"]
          /\ UNCHANGED saveVars
     ELSE /\ translated_text' = [translated_text EXCEPT ![r] = Strip(result[r].text)]
          /\ translation_time_ms' = [translation_time_ms EXCEPT ![r] = elapsed[r]]
          /\ user_email' = [user_email EXCEPT ![r] = UserEmailOf(input[r])]
          /\ pc' = [pc EXCEPT ![r] = IF DATABASE_AVAILABLE THEN "cg_select" ELSE "respond"]
          /\ UNCHANGED resp
  /\ UNCHANGED << DATABASE_AVAILABLE, dbVars, inputVars, loopVars, user, ghostVars, db0, otherVars >>

\* --------------------------------------------------- persistence of translate
\* a statement that went through: under autocommit it is committed at once
Executed(d) ==
  /\ db' = d
  /\ durable' = IF Autocommit THEN d ELSE durable

\* a statement followed by connection.commit()
ExecutedAndCommitted(d) ==
  /\ db' = d
  /\ durable' = d

\* cursor.execute raised mysql.connector.Error: nothing is written
Raise(r, stmt, cause) ==
  /\ cause = "storage" => faults < MaxFaults
  /\ faults' = IF cause = "storage" THEN faults + 1 ELSE faults
  /\ raised' = [raised EXCEPT ![r] = @ \cup {<<stmt, cause>>}]
  /\ UNCHANGED dbVars

\* create_or_get_user: SELECT * FROM users WHERE email = ... (database.py 249-255)
CgSelect(r) ==
  /\ pc[r] = "cg_select"
  /\ \/ /\ pc' = [pc EXCEPT ![r] =
               IF user_email[r] \in DOMAIN db.users THEN "cg_update" ELSE "cg_insert"]
        /\ UNCHANGED << dbVars, raised, faults, user >>
     \/ /\ Raise(r, "cg_select", "storage")
        /\ user' = [user EXCEPT ![r] = FALSE]
        /\ pc' = [pc EXCEPT ![r] = "respond"]
  /\ UNCHANGED << DATABASE_AVAILABLE, inputVars, loopVars, saveVars, resp, appended,
                  aggregated, db0, otherVars >>

\* create_or_get_user, user found: UPDATE users SET last_login = NOW(), commit,
\* return the row (database.py 255-260); last_login is not represented
CgUpdate(r) ==
  /\ pc[r] = "cg_update"
  /\ \/ /\ ExecutedAndCommitted(db)
        /\ user' = [user EXCEPT ![r] = TRUE]
        /\ pc' = [pc EXCEPT ![r] = "sv_insert"]
        /\ UNCHANGED << raised, faults >>
     \/ /\ Raise(r, "cg_update", "storage")
        /\ user' = [user EXCEPT ![r] = FALSE]
        /\ pc' = [pc EXCEPT ![r] = "respond"]
  /\ UNCHANGED << DATABASE_AVAILABLE, inputVars, loopVars, saveVars, resp, appended,
                  aggregated, db0, otherVars >>

\* create_or_get_user, user not found: INSERT INTO users, commit
\* (database.py 261-268); email is the PRIMARY KEY
CgInsert(r) ==
  /\ pc[r] = "cg_insert"
  /\ \/ /\ user_email[r] \notin DOMAIN db.users
        /\ ExecutedAndCommitted(SqlInsertUser(db, user_email[r]))
        /\ pc' = [pc EXCEPT ![r] = "cg_reselect"]
        /\ UNCHANGED << raised, faults, user >>
     \/ /\ user_email[r] \in DOMAIN db.users
        /\ Raise(r, "cg_insert", "duplicate")
        /\ user' = [user EXCEPT ![r] = FALSE]
        /\ pc' = [pc EXCEPT ![r] = "respond"]
     \/ /\ Raise(r, "cg_insert", "storage")
        /\ user' = [user EXCEPT ![r] = FALSE]
        /\ pc' = [pc EXCEPT ![r] = "respond"]
  /\ UNCHANGED << DATABASE_AVAILABLE, inputVars, loopVars, saveVars, resp, appended,
                  aggregated, db0, otherVars >>

\* create_or_get_user: the SELECT that fetches the created user, and
\* translate's "if user:" (database.py 270-275, api_server.py 295-297)
CgReselect(r) ==
  /\ pc[r] = "cg_reselect"
  /\ \/ /\ user' = [user EXCEPT ![r] = user_email[r] \in DOMAIN db.users]
        /\ pc' = [pc EXCEPT ![r] =
               IF user_email[r] \in DOMAIN db.users THEN "sv_insert" ELSE "respond"]
        /\ UNCHANGED << dbVars, raised, faults >>
     \/ /\ Raise(r, "cg_reselect", "storage")
        /\ user' = [user EXCEPT ![r] = FALSE]
        /\ pc' = [pc EXCEPT ![r] = "respond"]
  /\ UNCHANGED << DATABASE_AVAILABLE, inputVars, loopVars, saveVars, resp, appended,
                  aggregated, db0, otherVars >>

\* confidence_score = getattr(result, 'confidence', 0.0)
ConfidenceOf(res) == res.confidence

\* language_pair = f"{source_lang}-{target_lang}", kept as the ordered pair
LanguagePair(src, tgt) == <<src, tgt>>

\* save_translation: INSERT INTO translations (database.py 286-300);
\* user_email is a FOREIGN KEY into users
SvInsert(r) ==
  /\ pc[r] = "sv_insert"
  /\ \/ /\ user_email[r] \in DOMAIN db.users
        /\ Executed(SqlInsertTranslation(db, user_email[r],
              LanguagePair(source_lang[r], target_lang[r]), text[r], translated_text[r],
              Len_(text[r]), translation_time_ms[r], ConfidenceOf(result[r]), now))
        /\ appended' = [appended EXCEPT ![r] = Append(@, db.next_id)]
        /\ pc' = [pc EXCEPT ![r] = "sv_users"]
        /\ UNCHANGED << raised, faults >>
     \/ /\ user_email[r] \notin DOMAIN db.users
        /\ Raise(r, "sv_insert", "foreign_key")
        /\ pc' = [pc EXCEPT ![r] = "log"]
        /\ UNCHANGED appended
     \/ /\ Raise(r, "sv_insert", "storage")
        /\ pc' = [pc EXCEPT ![r] = "log"]
        /\ UNCHANGED appended
  /\ UNCHANGED << DATABASE_AVAILABLE, inputVars, loopVars, saveVars, user, resp,
                  aggregated, db0, otherVars >>

\* save_translation: UPDATE users SET total_translations = ... (database.py 302-308)
SvUsers(r) ==
  /\ pc[r] = "sv_users"
  /\ \/ /\ Executed(SqlUpdateUserStats(db, user_email[r], Len_(text[r])))
        /\ aggregated' = [aggregated EXCEPT ![r] = Append(@, "users")]
        /\ pc' = [pc EXCEPT ![r] = "sv_stats"]
        /\ UNCHANGED << raised, faults >>
     \/ /\ Raise(r, "sv_users", "storage")
        /\ pc' = [pc EXCEPT ![r] = "log"]
        /\ UNCHANGED aggregated
  /\ UNCHANGED << DATABASE_AVAILABLE, inputVars, loopVars, saveVars, user, resp,
                  appended, db0, otherVars >>

\* save_translation: the user_language_stats upsert and the commit
\* (database.py 310-332)
SvStats(r) ==
  /\ pc[r] = "sv_stats"
  /\ \/ /\ ExecutedAndCommitted(SqlUpsertLanguageStats(db, user_email[r],
              LanguagePair(source_lang[r], target_lang[r]), Len_(text[r]),
              translation_time_ms[r], ConfidenceOf(result[r]), now))
        /\ aggregated' = [aggregated EXCEPT ![r] = Append(@, "stats")]
        /\ UNCHANGED << raised, faults >>
     \/ /\ Raise(r, "sv_stats", "storage")
        /\ UNCHANGED aggregated
  /\ pc' = [pc EXCEPT ![r] = "log"]
  /\ UNCHANGED << DATABASE_AVAILABLE, inputVars, loopVars, saveVars, user, resp,
                  appended, db0, otherVars >>

\* log_system_action: INSERT INTO system_logs, commit (database.py 494-512).
\* request_data is handed to the connector as a dict, which the connector may
\* refuse to convert (an Error as well, caught and answered with False)
LogAction(r) ==
  /\ pc[r] = "log"
  /\ \/ /\ ExecutedAndCommitted(SqlInsertLog(db, user_email[r], "translate_text", 200,
              translation_time_ms[r]))
        /\ UNCHANGED << raised, faults >>
     \/ Raise(r, "log", "storage")
     \/ Raise(r, "log", "parameter")
  /\ pc' = [pc EXCEPT ![r] = "respond"]
  /\ UNCHANGED << DATABASE_AVAILABLE, inputVars, loopVars, saveVars, user, resp,
                  appended, aggregated, db0, otherVars >>

\* response_data and the 200 (api_server.py 333-347)
SuccessResponse(r) ==
  [ status |-> 200, success |-> TRUE, error |-> "",
    translated_text |-> translated_text[r],
    translation_time_ms |-> translation_time_ms[r],
    character_count |-> Len_(text[r]),
    database_saved |-> DATABASE_AVAILABLE ]

Respond(r) ==
  /\ pc[r] = "respond"
  /\ resp' = [resp EXCEPT ![r] = SuccessResponse(r)]
  /\ pc' = [pc EXCEPT ![r] = "done"]
  /\ UNCHANGED << DATABASE_AVAILABLE, dbVars, inputVars, loopVars, saveVars, user,
                  ghostVars, db0, otherVars >>

\* ------------------------------------------------------- the favorite toggle
\* a pair that no user has translated
UnusedPair == <<"en", "en">>

\* bodies of POST /api/users/favorites/language-pairs: language_pair and
\* is_favorite may be missing, and so may the X-User-Email header
FavInputs ==
  [ header_email : {NoneVal, "u1"},
    has_language_pair : BOOLEAN,
    language_pair : {<<"en", "es">>, <<"es", "en">>, UnusedPair},
    has_is_favorite : BOOLEAN, is_favorite : BOOLEAN ]

\* data.get('is_favorite', True)
IsFavoriteOf(in) == IF in.has_is_favorite THEN in.is_favorite ELSE TRUE

\* manage_favorite_language_pairs, POST, up to the call of
\* set_favorite_language_pair (api_server.py 1448-1491), and the latter's
\* "if is_favorite:" (database.py 896)
FavReceive(r, ins) ==
  /\ fav[r].pc = "idle"
  /\ \E in \in ins :
       fav' = [fav EXCEPT ![r] =
         IF ~DATABASE_AVAILABLE
         THEN [@ EXCEPT !.pc = "done", !.status = 503]
         ELSE IF in.header_email = NoneVal
         THEN [@ EXCEPT !.pc = "done", !.status = 400]
         ELSE IF ~in.has_language_pair
         THEN [@ EXCEPT !.pc = "done", !.status = 400, !.user_email = in.header_email]
         ELSE [@ EXCEPT !.pc = IF IsFavoriteOf(in) THEN "fv_clear" ELSE "fv_set",
                        !.user_email = in.header_email,
                        !.language_pair = in.language_pair,
                        !.is_favorite = IsFavoriteOf(in)]]
  /\ UNCHANGED << DATABASE_AVAILABLE, dbVars, translateVars, raised, faults, db0, now,
                  readVars, bulkVars >>

\* set_favorite_language_pair returned False: 500 (api_server.py 1493-1497)
FavFailed(r) == fav' = [fav EXCEPT ![r] = [@ EXCEPT !.pc = "done", !.status = 500]]

\* set_favorite_language_pair: the UPDATE that clears the user's flags
\* (database.py 896-902)
FavClear(r) ==
  /\ fav[r].pc = "fv_clear"
  /\ \/ /\ Executed(SqlClearFavorites(db, fav[r].user_email))
        /\ fav' = [fav EXCEPT ![r] = [@ EXCEPT !.pc = "fv_set"]]
        /\ UNCHANGED << raised, faults >>
     \/ /\ Raise(r, "fv_clear", "storage")
        /\ FavFailed(r)
  /\ UNCHANGED << DATABASE_AVAILABLE, translateVars, db0, now, readVars, bulkVars >>

\* set_favorite_language_pair: the UPDATE of the one pair, the commit and the
\* 200 (database.py 904-913, api_server.py 1493-1497)
FavSet(r) ==
  /\ fav[r].pc = "fv_set"
  /\ \/ /\ ExecutedAndCommitted(SqlSetFavorite(db, fav[r].user_email,
              fav[r].language_pair, fav[r].is_favorite))
        /\ fav' = [fav EXCEPT ![r] = [@ EXCEPT !.pc = "done", !.status = 200,
                                                !.success = TRUE]]
        /\ UNCHANGED << raised, faults >>
     \/ /\ Raise(r, "fv_set", "storage")
        /\ FavFailed(r)
  /\ UNCHANGED << DATABASE_AVAILABLE, translateVars, db0, now, readVars, bulkVars >>

\* -------------------------------------------------------- batch translation
\* bodies of POST /api/translate/batch: no JSON at all, or an object in which
\* texts is missing, is a string, or is a list of at most MaxTexts strings,
\* and in which source_lang and target_lang may be missing
BatchInputs ==
  { in \in [ has_data : BOOLEAN, texts_is : {"absent", "string", "list"},
             texts : UNION { [1..n -> {Str(0, 5, 0), Str(1, 0, 1)}] : n \in 0..MaxTexts },
             source_lang : SourceCodes, target_lang : TargetCodes ] :
      in.texts_is # "list" => in.texts = <<>> }

BatchEntryWithoutError(t, res) ==
  [ original |-> t, translated |-> NullText, has_error |-> FALSE ]

\* the entry of one text (api_server.py 386-398): result.text as it is, or,
\* when the call raised or returned something without a text attribute,
\* None and the error
BatchEntry(t, res) ==
  IF res.kind = "obj"
  THEN [ original |-> t, translated |-> res.text, has_error |-> FALSE ]
  ELSE [ original |-> t, translated |-> NullText, has_error |-> TRUE ]

\* translate_batch up to the loop (api_server.py 368-384); the language codes
\* default to 'en' and 'es'
BatchReceive ==
  /\ batch.pc = "idle"
  /\ \E in \in BatchInputs :
       LET src == IF in.source_lang = NoneVal THEN "en" ELSE in.source_lang
           tgt == IF in.target_lang = NoneVal THEN "es" ELSE in.target_lang
       IN batch' =
            IF ~in.has_data
            THEN [batch EXCEPT !.pc = "done", !.status = 500]
            ELSE IF in.texts_is # "list" \/ in.texts = <<>>
            THEN [batch EXCEPT !.pc = "done", !.status = 400]
            ELSE IF ~validate_language_code(src) \/ ~validate_language_code(tgt)
            THEN [batch EXCEPT !.pc = "done", !.status = 400]
            ELSE [batch EXCEPT !.pc = "loop", !.texts = in.texts,
                               !.source_lang = src, !.target_lang = tgt]
  /\ UNCHANGED << DATABASE_AVAILABLE, dbVars, translateVars, raised, faults, db0, now,
                  favVars, readVars, clear >>

\* one iteration of the loop over texts: the call of Translator.translate
\* and the entry; after the last text, the 200 (api_server.py 385-406)
BatchItem ==
  /\ batch.pc = "loop"
  /\ \E res \in Results :
       LET i == Len(batch.translations) + 1
       IN batch' =
            [batch EXCEPT
               !.calls = Append(@, [text |-> batch.texts[i], outcome |-> res.kind]),
               !.translations = Append(@, BatchEntry(batch.texts[i], res)),
               !.pc = IF i = Len(batch.texts) THEN "done" ELSE "loop",
               !.status = IF i = Len(batch.texts) THEN 200 ELSE 0]
  /\ UNCHANGED << DATABASE_AVAILABLE, dbVars, translateVars, raised, faults, db0, now,
                  favVars, readVars, clear >>

\* --------------------------------------------------------- the history clear
\* requests of POST /api/users/history/clear: the X-User-Email header, a JSON
\* body that is an object with or without user_email or an empty object
\* (falsy), and the confirm query parameter
ClearInputs ==
  { in \in [ header_email : {NoneVal, "u1", "u2"}, has_json : BOOLEAN,
             body_email : {NoneVal, "u2"},
             confirm : {NoneVal, "false", "true", "True"} ] :
      ~in.has_json => in.body_email = NoneVal }

Unconfirmed(arg) == TRUE

\* request.args.get('confirm', 'false').lower() == 'true'
Confirmed(arg) == arg \in {"true", "True"}

\* clear_user_history up to the first statement (api_server.py 948-970);
\* user_email = (header or body email) if request.json else None
ClReceive(ins) ==
  /\ clear.pc = "idle"
  /\ \E in \in ins :
       LET email == IF in.has_json
                    THEN IF in.header_email # NoneVal
                         THEN in.header_email ELSE in.body_email
                    ELSE NoneVal
           req == [clear EXCEPT !.confirm = in.confirm]
       IN clear' =
            IF ~DATABASE_AVAILABLE
            THEN [req EXCEPT !.pc = "done", !.status = 503]
            ELSE IF email = NoneVal
            THEN [req EXCEPT !.pc = "done", !.status = 400]
            ELSE IF ~Confirmed(in.confirm)
            THEN [req EXCEPT !.pc = "done", !.status = 400, !.user_email = email]
            ELSE [req EXCEPT !.pc = "cl_translations", !.user_email = email]
  /\ UNCHANGED << DATABASE_AVAILABLE, dbVars, translateVars, raised, faults, db0, now,
                  favVars, readVars, batch >>

\* a statement of clear_user_history raised: 500 (api_server.py 997-1002)
ClFailed ==
  /\ faults < MaxFaults
  /\ faults' = faults + 1
  /\ clear' = [clear EXCEPT !.pc = "done", !.status = 500]
  /\ UNCHANGED dbVars

\* DELETE FROM translations and deleted_count = cursor.rowcount
\* (api_server.py 973-975)
ClDeleteTranslations ==
  /\ clear.pc = "cl_translations"
  /\ \/ /\ Executed(SqlDeleteTranslations(db, clear.user_email))
        /\ clear' = [clear EXCEPT !.pc = "cl_users",
              !.deleted_count =
                 Len(db.translations)
                   - Len(SqlDeleteTranslations(db, clear.user_email).translations)]
        /\ UNCHANGED faults
     \/ ClFailed
  /\ UNCHANGED << DATABASE_AVAILABLE, translateVars, raised, db0, now, favVars,
                  readVars, batch >>

\* UPDATE users SET total_translations = 0, ... (api_server.py 977-983)
ClResetUser ==
  /\ clear.pc = "cl_users"
  /\ \/ /\ Executed(SqlResetUserStats(db, clear.user_email))
        /\ clear' = [clear EXCEPT !.pc = "cl_stats"]
        /\ UNCHANGED faults
     \/ ClFailed
  /\ UNCHANGED << DATABASE_AVAILABLE, translateVars, raised, db0, now, favVars,
                  readVars, batch >>

\* DELETE FROM user_language_stats, the commit and the 200
\* (api_server.py 985-995)
ClDeleteStats ==
  /\ clear.pc = "cl_stats"
  /\ \/ /\ ExecutedAndCommitted(SqlDeleteLanguageStats(db, clear.user_email))
        /\ clear' = [clear EXCEPT !.pc = "done", !.status = 200]
        /\ UNCHANGED faults
     \/ ClFailed
  /\ UNCHANGED << DATABASE_AVAILABLE, translateVars, raised, db0, now, favVars,
                  readVars, batch >>

\* ---------------------------------------------------------------- read side
PriorAny(older_avg) == TRUE

\* ... if older_avg > 0 else 0
PriorPositive(older_avg) == older_avg[1] > 0

\* get_daily_analytics, "Calculate trends" (database.py 679-685); data holds
\* d['translations'] of the fetched rows, most recent day first
Trend(data) ==
  IF Len(data) > 1
  THEN LET recent_avg == PyDiv(RatInt(Sum(Slice(data, 0, 7))), RatInt(Min(7, Len(data))))
           older_avg ==
             IF Len(data) > 7
             THEN PyDiv(RatInt(Sum(Slice(data, 7, 14))),
                        RatInt(Min(7, Len(Slice(data, 7, 14)))))
             ELSE recent_avg
       IN IF recent_avg = ZeroDivisionError \/ older_avg = ZeroDivisionError
          THEN ZeroDivisionError
          ELSE IF PriorPositive(older_avg)
          THEN LET ratio == PyDiv(RatSub(recent_avg, older_avg), older_avg)
               IN IF ratio = ZeroDivisionError THEN ratio ELSE RatMulInt(ratio, 100)
          ELSE <<0, 1>>
  ELSE <<0, 1>>

\* the summary that get_daily_analytics returns (database.py 698-708)
DailySummary(data) ==
  [ returned |-> TRUE, total_days |-> Len(data), total_translations |-> Sum(data),
    trend_percentage |-> Round2(Trend(data)) ]

\* get_daily_analytics after the fetch of the rows
ComputeTrend ==
  /\ ~analytics.returned
  /\ analytics' = DailySummary(daily_data)
  /\ UNCHANGED << DATABASE_AVAILABLE, dbVars, translateVars, ghostVars, db0, now,
                  favVars, daily_data, statistics, language_analytics,
                  dashboard_data, bulkVars >>

SelectAndReset(d) ==
  [d EXCEPT !.users =
     [e \in DOMAIN @ |-> [total_translations |-> 0, total_characters |-> 0]]]

\* cursor.execute("SELECT ...") and the fetch of its rows leave every table
\* as it is
SqlSelect(d) == d

\* no statistics request has been answered yet
NoRead ==
  /\ ~statistics.returned
  /\ ~analytics.returned
  /\ ~language_analytics.returned
  /\ ~dashboard_data.returned

\* the period values that get_user_statistics lets through, and int(period)
Periods == {"7", "30", "90", "all"}

PeriodDays(period) == IF period = "7" THEN 7 ELSE IF period = "30" THEN 30 ELSE 90

\* WHERE user_email = %s AND t.created_at >= DATE_SUB(NOW(), INTERVAL %s DAY);
\* the time filter is left out for period 'all'
Selected(d, email, period, ts) ==
  { i \in DOMAIN d.translations :
      /\ d.translations[i].user_email = email
      /\ period = "all" \/ d.translations[i].created_at >= ts - 24 * PeriodDays(period) }

\* SUM(col) over the translations rows S
RECURSIVE SumColumn(_, _, _)
SumColumn(d, S, col) ==
  IF S = {} THEN 0
  ELSE LET i == CHOOSE x \in S : TRUE
       IN d.translations[i][col] + SumColumn(d, S \ {i}, col)

RECURSIVE OrderByDateAsc(_)
OrderByDateAsc(dates) ==
  IF dates = {} THEN <<>>
  ELSE LET m == CHOOSE x \in dates : \A y \in dates : y >= x
       IN <<m>> \o OrderByDateAsc(dates \ {m})

\* ORDER BY date DESC
RECURSIVE OrderByDateDesc(_)
OrderByDateDesc(dates) ==
  IF dates = {} THEN <<>>
  ELSE LET m == CHOOSE x \in dates : \A y \in dates : y <= x
       IN <<m>> \o OrderByDateDesc(dates \ {m})

\* the daily activity query (database.py 553-568): GROUP BY DATE(created_at)
\* ORDER BY date DESC LIMIT 90
DailyActivity(d, email, period, ts) ==
  LET S == Selected(d, email, period, ts)
      ordered == OrderByDateDesc({ DateOf(d.translations[i].created_at) : i \in S })
      group(date) == { i \in S : DateOf(d.translations[i].created_at) = date }
      row(date) ==
        [ date |-> date,
          translations |-> Cardinality(group(date)),
          characters |-> SumColumn(d, group(date), "character_count"),
          avg_time_ms |-> Rat(SumColumn(d, group(date), "translation_time_ms"),
                              Cardinality(group(date))),
          language_pairs |->
            Cardinality({ d.translations[i].language_pair : i \in group(date) }) ]
  IN [ k \in 1..Min(DAILY_LIMIT, Len(ordered)) |-> row(ordered[k]) ]

\* ORDER BY hour
RECURSIVE OrderByHourDesc(_)
OrderByHourDesc(hours) ==
  IF hours = {} THEN <<>>
  ELSE LET m == CHOOSE x \in hours : \A y \in hours : y <= x
       IN <<m>> \o OrderByHourDesc(hours \ {m})

RECURSIVE OrderByHour(_)
OrderByHour(hours) ==
  IF hours = {} THEN <<>>
  ELSE LET m == CHOOSE x \in hours : \A y \in hours : y >= x
       IN <<m>> \o OrderByHour(hours \ {m})

\* the hourly patterns query (database.py 570-582): GROUP BY HOUR(created_at)
\* ORDER BY hour; a group exists for an hour that has a selected row
HourlyPatterns(d, email, period, ts) ==
  LET S == Selected(d, email, period, ts)
      ordered == OrderByHour({ HourOf(d.translations[i].created_at) : i \in S })
      group(hour) == { i \in S : HourOf(d.translations[i].created_at) = hour }
  IN [ k \in 1..Len(ordered) |->
         [ hour |-> ordered[k],
           translations |-> Cardinality(group(ordered[k])),
           characters |-> SumColumn(d, group(ordered[k]), "character_count") ] ]

\* the top language pairs query (database.py 584-599): GROUP BY
\* source_language, target_language ORDER BY count DESC LIMIT 20.  The server
\* may return rows of equal count in any order, so these are the results that
\* the query can have.
TopLanguagePairs(d, email, period, ts) ==
  LET S == Selected(d, email, period, ts)
      pairs == { d.translations[i].language_pair : i \in S }
      group(pair) == { i \in S : d.translations[i].language_pair = pair }
      row(pair) ==
        [ language_pair |-> pair,
          count |-> Cardinality(group(pair)),
          total_characters |-> SumColumn(d, group(pair), "character_count"),
          last_used |->
            d.translations[CHOOSE i \in group(pair) : \A j \in group(pair) :
              d.translations[j].created_at <= d.translations[i].created_at].created_at ]
      orders ==
        { q \in [1..Cardinality(pairs) -> pairs] :
            /\ \A a, b \in DOMAIN q : a # b => q[a] # q[b]
            /\ \A a, b \in DOMAIN q :
                 a < b => Cardinality(group(q[a])) >= Cardinality(group(q[b])) }
  IN { [ k \in 1..Min(TOP_LIMIT, Len(q)) |-> row(q[k]) ] : q \in orders }

\* get_comprehensive_user_statistics: None for an unknown user, else the
\* statistics of the period (database.py 528-599): the overall COUNT(*), the
\* daily activity, the hourly patterns and the top language pairs
GetStatistics ==
  /\ NoRead
  /\ DATABASE_AVAILABLE
  /\ Executed(SqlSelect(db))
  /\ \E email \in Emails, period \in Periods :
       IF email \in DOMAIN db.users
       THEN \E top \in TopLanguagePairs(db, email, period, now) :
              statistics' =
                [ returned |-> TRUE, found |-> TRUE,
                  user_email |-> email, period |-> period,
                  total_translations |-> Cardinality(Selected(db, email, period, now)),
                  daily_activity |-> DailyActivity(db, email, period, now),
                  hourly_patterns |-> HourlyPatterns(db, email, period, now),
                  top_language_pairs |-> top ]
       ELSE statistics' =
              [ returned |-> TRUE, found |-> FALSE,
                user_email |-> email, period |-> period,
                total_translations |-> 0, daily_activity |-> <<>>,
                hourly_patterns |-> <<>>, top_language_pairs |-> <<>> ]
  /\ UNCHANGED << DATABASE_AVAILABLE, translateVars, ghostVars, db0, now,
                  favVars, daily_data, analytics, language_analytics,
                  dashboard_data, bulkVars >>

\* get_daily_analytics (database.py 652-712): the rows of the days of the last
\* `days` days, most recent first, and the summary with the trend.  The query
\* is the daily activity query without its LIMIT, which no window of at most
\* 89 days reaches.
GetDailyAnalytics ==
  /\ NoRead
  /\ DATABASE_AVAILABLE
  /\ Executed(SqlSelect(db))
  /\ \E email \in Emails, days \in {"7", "30"} :
       LET rows == DailyActivity(db, email, days, now)
       IN daily_data' = [k \in 1..Len(rows) |-> rows[k].translations]
  /\ analytics' = DailySummary(daily_data')
  /\ UNCHANGED << DATABASE_AVAILABLE, translateVars, ghostVars, db0, now,
                  favVars, statistics, language_analytics, dashboard_data, bulkVars >>

\* get_language_analytics (database.py 714-810): of what it returns, the
\* language pairs that the user has translated, with their usage counts
GetLanguageAnalytics ==
  /\ NoRead
  /\ DATABASE_AVAILABLE
  /\ Executed(SqlSelect(db))
  /\ \E email \in Emails :
       LET S == Selected(db, email, "all", now)
       IN language_analytics' =
            [ returned |-> TRUE, user_email |-> email,
              language_pairs |->
                { [ language_pair |-> db.translations[i].language_pair,
                    usage_count |->
                      Cardinality({ j \in S : db.translations[j].language_pair
                                                = db.translations[i].language_pair }) ]
                  : i \in S } ]
  /\ UNCHANGED << DATABASE_AVAILABLE, translateVars, ghostVars, db0, now,
                  favVars, daily_data, analytics, statistics, dashboard_data,
                  bulkVars >>

\* get_user_dashboard_data (database.py 919-1037): None for an unknown user;
\* of what it returns, the user's counter and this week's number of events
GetDashboardData ==
  /\ NoRead
  /\ DATABASE_AVAILABLE
  /\ Executed(SqlSelect(db))
  /\ \E email \in Emails :
       dashboard_data' =
         [ returned |-> TRUE, found |-> email \in DOMAIN db.users, user_email |-> email,
           total_translations |->
             IF email \in DOMAIN db.users THEN db.users[email].total_translations ELSE 0,
           week_translations |->
             IF email \in DOMAIN db.users
             THEN Cardinality(Selected(db, email, "7", now)) ELSE 0 ]
  /\ UNCHANGED << DATABASE_AVAILABLE, translateVars, ghostVars, db0, now,
                  favVars, daily_data, analytics, statistics, language_analytics,
                  bulkVars >>

\* ------------------------------------------------------------ specifications
\* a database in which u1 has already recorded one translation
DbWithHistory ==
  SqlInsertLog(
    SqlUpsertLanguageStats(
      SqlUpdateUserStats(
        SqlInsertTranslation(SqlInsertUser(EmptyDb, "u1"), "u1", <<"en", "es">>,
          Str(0, 5, 0), Str(0, 4, 0), 5, 120, Rat(95, 100), T0 - 24),
        "u1", 5),
      "u1", <<"en", "es">>, 5, 120, Rat(95, 100), T0 - 24),
    "u1", "translate_text", 200, 120)

InitDbs == {EmptyDb, DbWithHistory}

\* a favorite request that has not arrived yet
NoFavorite ==
  [ pc |-> "idle", user_email |-> NoneVal, language_pair |-> <<>>,
    is_favorite |-> FALSE, status |-> 0, success |-> FALSE ]

\* get_daily_analytics and get_comprehensive_user_statistics before they return
NoAnalytics ==
  [ returned |-> FALSE, total_days |-> 0, total_translations |-> 0,
    trend_percentage |-> <<0, 1>> ]

NoStatistics ==
  [ returned |-> FALSE, found |-> FALSE, user_email |-> NoneVal, period |-> "30",
    total_translations |-> 0, daily_activity |-> <<>>, hourly_patterns |-> <<>>,
    top_language_pairs |-> <<>> ]

\* a history-clear request that has not arrived yet
NoClear ==
  [ pc |-> "idle", user_email |-> NoneVal, confirm |-> NoneVal, status |-> 0,
    deleted_count |-> 0 ]

\* no favorite, statistics or history-clear request, the clock at T0
OtherInit ==
  /\ now = T0
  /\ fav = [r \in Req |-> NoFavorite]
  /\ daily_data = <<>>
  /\ analytics = NoAnalytics
  /\ statistics = NoStatistics
  /\ language_analytics = [returned |-> FALSE, user_email |-> NoneVal, language_pairs |-> {}]
  /\ dashboard_data =
       [ returned |-> FALSE, found |-> FALSE, user_email |-> NoneVal,
         total_translations |-> 0, week_translations |-> 0 ]
  /\ clear = NoClear
  /\ batch = [ pc |-> "idle", texts |-> <<>>, source_lang |-> NoneVal,
                target_lang |-> NoneVal, translations |-> <<>>, calls |-> <<>>,
                status |-> 0 ]

Init ==
  /\ DATABASE_AVAILABLE \in BOOLEAN
  /\ db \in InitDbs
  /\ durable = db
  /\ db0 = db
  /\ pc = [r \in Req |-> "idle"]
  /\ input = [r \in Req |-> NoInput]
  /\ text = [r \in Req |-> EmptyStr]
  /\ source_lang = [r \in Req |-> NoneVal]
  /\ target_lang = [r \in Req |-> NoneVal]
  /\ attempt = [r \in Req |-> 0]
  /\ result = [r \in Req |-> NoResult]
  /\ wait_time = [r \in Req |-> 0]
  /\ elapsed = [r \in Req |-> 0]
  /\ translated_text = [r \in Req |-> EmptyStr]
  /\ translation_time_ms = [r \in Req |-> 0]
  /\ user_email = [r \in Req |-> NoneVal]
  /\ user = [r \in Req |-> FALSE]
  /\ resp = [r \in Req |-> NoResponse]
  /\ calls = [r \in Req |-> 0]
  /\ sleeps = [r \in Req |-> <<>>]
  /\ last_call_ms = [r \in Req |-> 0]
  /\ raised = [r \in Req |-> {}]
  /\ appended = [r \in Req |-> <<>>]
  /\ aggregated = [r \in Req |-> <<>>]
  /\ faults = 0
  /\ OtherInit

Persist(r) ==
  \/ CgSelect(r) \/ CgUpdate(r) \/ CgInsert(r) \/ CgReselect(r)
  \/ SvInsert(r) \/ SvUsers(r) \/ SvStats(r) \/ LogAction(r)

\* one request, any input, any provider behaviour
Next ==
  \/ Receive(1, Inputs)
  \/ ProviderCall(1, Results, Durations)
  \/ Sleep(1)
  \/ PostLoop(1)
  \/ Persist(1)
  \/ Respond(1)

Spec == Init /\ [][Next]_vars

\* the requests of the concurrent specification: valid, by the same user, and
\* answered by the provider on the first attempt
ConcInputs ==
  { in \in Inputs :
      /\ in.has_data /\ in.text = Str(1, 5, 1)
      /\ in.source_lang = "en" /\ in.source_lang_name = NoneVal
      /\ in.target_lang = "es" /\ in.target_lang_name = NoneVal
      /\ in.header_email = "u1" /\ in.body_email = NoneVal }

ConcResults == { Obj(Str(1, 6, 1), Rat(95, 100)) }

ConcDurations == {120, 180}

\* every request has come out of the retry loop with its first result and is
\* about to call create_or_get_user (api_server.py 284-295)
InitConc ==
  /\ DATABASE_AVAILABLE = TRUE
  /\ db \in InitDbs
  /\ durable = db
  /\ db0 = db
  /\ pc = [r \in Req |-> "cg_select"]
  /\ input \in [Req -> ConcInputs]
  /\ text = [r \in Req |-> Strip(GetText(input[r]))]
  /\ source_lang = [r \in Req |->
        ResolveLang(input[r].source_lang, input[r].source_lang_name)]
  /\ target_lang = [r \in Req |->
        ResolveLang(input[r].target_lang, input[r].target_lang_name)]
  /\ attempt = [r \in Req |-> 0]
  /\ result \in [Req -> ConcResults]
  /\ wait_time = [r \in Req |-> 0]
  /\ elapsed \in [Req -> ConcDurations]
  /\ translated_text = [r \in Req |-> Strip(result[r].text)]
  /\ translation_time_ms = elapsed
  /\ user_email = [r \in Req |-> UserEmailOf(input[r])]
  /\ user = [r \in Req |-> FALSE]
  /\ resp = [r \in Req |-> NoResponse]
  /\ calls = [r \in Req |-> 1]
  /\ sleeps = [r \in Req |-> <<>>]
  /\ last_call_ms = elapsed
  /\ raised = [r \in Req |-> {}]
  /\ appended = [r \in Req |-> <<>>]
  /\ aggregated = [r \in Req |-> <<>>]
  /\ faults = 0
  /\ OtherInit

NextConc ==
  \E r \in Req :
    \/ CgSelect(r) \/ CgUpdate(r) \/ CgInsert(r) \/ CgReselect(r)
    \/ SvInsert(r) \/ SvUsers(r) \/ SvStats(r) \/ LogAction(r)
    \/ Respond(r)

SpecConc == InitConc /\ [][NextConc]_vars

\* one request by u1 that names both language codes: a valid one and three
\* that the input checks turn down; any provider behaviour
LoopInputs ==
  { in \in Inputs :
      /\ in.has_data /\ in.text \in {EmptyStr, Str(1, 5, 1)}
      /\ in.source_lang \in {"en", "zz"} /\ in.source_lang_name = NoneVal
      /\ in.target_lang = "es" /\ in.target_lang_name = NoneVal
      /\ in.header_email = "u1" /\ in.body_email = NoneVal }

NextLoop ==
  \/ Receive(1, LoopInputs)
  \/ ProviderCall(1, Results, Durations)
  \/ Sleep(1)
  \/ PostLoop(1)
  \/ Persist(1)
  \/ Respond(1)

\* the request arrives and its handler keeps running: every provider call
\* returns or raises, every sleep ends, every statement returns or raises
FairSpec == Init /\ [][NextLoop]_vars /\ WF_vars(NextLoop)

\* u1 exists and has not translated anything yet
DbWithUser == SqlInsertUser(EmptyDb, "u1")

\* u1 has translated en-es and es-en once each and has made en-es the favorite
DbWithFavorite ==
  SqlSetFavorite(
    SqlUpsertLanguageStats(
      SqlUpdateUserStats(
        SqlInsertTranslation(DbWithHistory, "u1", <<"es", "en">>,
          Str(0, 4, 0), Str(0, 5, 0), 4, 180, Rat(85, 100), T0 - 12),
        "u1", 4),
      "u1", <<"es", "en">>, 4, 180, Rat(85, 100), T0 - 12),
    "u1", <<"en", "es">>, TRUE)

AggDbs == {DbWithUser, DbWithHistory, DbWithFavorite}

\* valid requests by u1 in either direction between the two languages
AggInputs ==
  { in \in [ has_data : {TRUE}, text : {Str(1, 5, 1), Str(0, 3, 0)},
             source_lang : {"en", "es"}, source_lang_name : {NoneVal},
             target_lang : {"en", "es"}, target_lang_name : {NoneVal},
             header_email : {"u1"}, body_email : {NoneVal} ] :
      in.source_lang # in.target_lang }

\* the provider's answer to a text and the time it took
AggOutcomes ==
  { [text |-> Str(1, 5, 1), result |-> Obj(Str(1, 6, 1), Rat(95, 100)), elapsed |-> 120],
    [text |-> Str(0, 3, 0), result |-> Obj(Str(0, 4, 0), Rat(85, 100)), elapsed |-> 180] }

\* every request, with a body of ins, has its user row and is about to call
\* save_translation (api_server.py 297-311)
Saving(ins) ==
  /\ pc = [r \in Req |-> "sv_insert"]
  /\ input \in [Req -> ins]
  /\ text = [r \in Req |-> Strip(GetText(input[r]))]
  /\ source_lang = [r \in Req |->
        ResolveLang(input[r].source_lang, input[r].source_lang_name)]
  /\ target_lang = [r \in Req |->
        ResolveLang(input[r].target_lang, input[r].target_lang_name)]
  /\ attempt = [r \in Req |-> 0]
  /\ \E o \in [Req -> AggOutcomes] :
       /\ \A r \in Req : input[r].text = o[r].text
       /\ result = [r \in Req |-> o[r].result]
       /\ elapsed = [r \in Req |-> o[r].elapsed]
  /\ wait_time = [r \in Req |-> 0]
  /\ translated_text = [r \in Req |-> Strip(result[r].text)]
  /\ translation_time_ms = elapsed
  /\ user_email = [r \in Req |-> UserEmailOf(input[r])]
  /\ user = [r \in Req |-> TRUE]
  /\ resp = [r \in Req |-> NoResponse]
  /\ calls = [r \in Req |-> 1]
  /\ sleeps = [r \in Req |-> <<>>]
  /\ last_call_ms = elapsed
  /\ raised = [r \in Req |-> {}]
  /\ appended = [r \in Req |-> <<>>]
  /\ aggregated = [r \in Req |-> <<>>]
  /\ faults = 0

InitAgg ==
  /\ DATABASE_AVAILABLE = TRUE
  /\ db \in AggDbs
  /\ durable = db
  /\ db0 = db
  /\ Saving(AggInputs)
  /\ OtherInit

\* concurrent save_translation calls, statement by statement
NextAgg == \E r \in Req : SvInsert(r) \/ SvUsers(r) \/ SvStats(r)

SpecAgg == InitAgg /\ [][NextAgg]_vars

\* no translate request has arrived
IdleRequests ==
  /\ pc = [r \in Req |-> "idle"]
  /\ input = [r \in Req |-> NoInput]
  /\ text = [r \in Req |-> EmptyStr]
  /\ source_lang = [r \in Req |-> NoneVal]
  /\ target_lang = [r \in Req |-> NoneVal]
  /\ attempt = [r \in Req |-> 0]
  /\ result = [r \in Req |-> NoResult]
  /\ wait_time = [r \in Req |-> 0]
  /\ elapsed = [r \in Req |-> 0]
  /\ translated_text = [r \in Req |-> EmptyStr]
  /\ translation_time_ms = [r \in Req |-> 0]
  /\ user_email = [r \in Req |-> NoneVal]
  /\ user = [r \in Req |-> FALSE]
  /\ resp = [r \in Req |-> NoResponse]
  /\ calls = [r \in Req |-> 0]
  /\ sleeps = [r \in Req |-> <<>>]
  /\ last_call_ms = [r \in Req |-> 0]
  /\ raised = [r \in Req |-> {}]
  /\ appended = [r \in Req |-> <<>>]
  /\ aggregated = [r \in Req |-> <<>>]
  /\ faults = 0

\* the favorite requests of the concurrent specification: by u1, complete
ConcFavInputs ==
  { in \in FavInputs :
      in.header_email = "u1" /\ in.has_language_pair /\ in.has_is_favorite }

FavDbs == {DbWithHistory, DbWithFavorite}

\* no translate request; the favorite requests have not arrived yet
InitFav ==
  /\ DATABASE_AVAILABLE \in BOOLEAN
  /\ db \in FavDbs
  /\ durable = db
  /\ db0 = db
  /\ IdleRequests
  /\ OtherInit

\* concurrent favorite requests, statement by statement; the first may be
\* any request, the others are complete requests by u1
NextFav ==
  \/ FavReceive(1, FavInputs)
  \/ \E r \in Req \ {1} : FavReceive(r, ConcFavInputs)
  \/ \E r \in Req : FavClear(r) \/ FavSet(r)

SpecFav == InitFav /\ [][NextFav]_vars

\* u2 as well has translated en-es once and has made it the favorite
DbWithTwoUsers ==
  SqlSetFavorite(
    SqlUpsertLanguageStats(
      SqlUpdateUserStats(
        SqlInsertTranslation(SqlInsertUser(DbWithFavorite, "u2"), "u2", <<"en", "es">>,
          Str(0, 4, 0), Str(0, 4, 0), 4, 120, Rat(95, 100), T0 - 6),
        "u2", 4),
      "u2", <<"en", "es">>, 4, 120, Rat(95, 100), T0 - 6),
    "u2", <<"en", "es">>, TRUE)

\* valid requests by u1 or by u2 in either direction between the two languages
OpsInputs ==
  { in \in [ has_data : {TRUE}, text : {Str(1, 5, 1)},
             source_lang : {"en", "es"}, source_lang_name : {NoneVal},
             target_lang : {"en", "es"}, target_lang_name : {NoneVal},
             header_email : {"u1", "u2"}, body_email : {NoneVal} ] :
      in.source_lang # in.target_lang }

\* request 1 is about to call save_translation; no favorite request and no
\* history-clear request has arrived yet
InitOps ==
  /\ DATABASE_AVAILABLE = TRUE
  /\ db \in {DbWithUser, DbWithTwoUsers}
  /\ durable = db
  /\ db0 = db
  /\ Saving(OpsInputs)
  /\ \A r \in Req : input[r] = input[1]
  /\ OtherInit

\* a save, a favorite request and a history clear, statement by statement
NextOps ==
  \/ SvInsert(1) \/ SvUsers(1) \/ SvStats(1)
  \/ FavReceive(1, ConcFavInputs) \/ FavClear(1) \/ FavSet(1)
  \/ ClReceive(ClearInputs) \/ ClDeleteTranslations \/ ClResetUser \/ ClDeleteStats

SpecOps == InitOps /\ [][NextOps]_vars

\* a batch request, whatever the database holds and whether it is available
SpecBatch == InitFav /\ [][BatchReceive \/ BatchItem]_vars

\* the provider raises or answers
SleepResults == { Raised, Obj(Str(1, 6, 1), Rat(95, 100)) }

SleepDurations == {120}

\* the steps of the translate handler of request r, without persistence
Handle(r) ==
  \/ Receive(r, ConcInputs)
  \/ ProviderCall(r, SleepResults, SleepDurations)
  \/ Sleep(r)
  \/ PostLoop(r)
  \/ Respond(r)

\* the server runs without a database (DATABASE_AVAILABLE stayed False)
InitSleep == Init /\ ~DATABASE_AVAILABLE /\ db = EmptyDb

\* concurrent translate requests, each in its own retry loop
NextSleep == \E r \in Req : Handle(r)

SpecSleep == InitSleep /\ [][NextSleep]_vars

\* n days: k1 days with a translations each, then up to day k2 with b, then c
Series(n, k1, k2, a, b, c) ==
  [ i \in 1..n |-> IF i <= k1 THEN a ELSE IF i <= k2 THEN b ELSE c ]

\* daily series of up to MaxPoints days, most recent day first.  The rows of
\* the query have translations >= 1; the computation is applied to any counts
SeriesSet ==
  { Series(n, k[1], k[2], c[1], c[2], c[3]) :
      n \in 0..MaxPoints, k \in (0..MaxPoints) \X (0..MaxPoints),
      c \in {0, 1, 3} \X {0, 1, 3} \X {0, 1, 3} }

\* get_daily_analytics has fetched the rows of some daily series
InitTrend ==
  /\ DATABASE_AVAILABLE = TRUE
  /\ db = DbWithHistory
  /\ durable = db
  /\ db0 = db
  /\ IdleRequests
  /\ now = T0
  /\ fav = [r \in Req |-> NoFavorite]
  /\ daily_data \in SeriesSet
  /\ analytics = NoAnalytics
  /\ statistics = NoStatistics
  /\ language_analytics = [returned |-> FALSE, user_email |-> NoneVal, language_pairs |-> {}]
  /\ dashboard_data =
       [ returned |-> FALSE, found |-> FALSE, user_email |-> NoneVal,
         total_translations |-> 0, week_translations |-> 0 ]
  /\ clear = NoClear
  /\ batch = [ pc |-> "idle", texts |-> <<>>, source_lang |-> NoneVal,
                target_lang |-> NoneVal, translations |-> <<>>, calls |-> <<>>,
                status |-> 0 ]

SpecTrend == InitTrend /\ [][ComputeTrend]_vars

\* the events of a history that goes n days back from T0, oldest first: none
\* on every 10th day; else an event of u1 within an hour of the time of day of
\* T0 (the hour depends on the day j and on the shift s), preceded on two days
\* out of four by a second event of u1, five hours earlier and in the other
\* direction, and on every 5th day by an event of u2
HistoryEvents(n, s) ==
  LET ts(j) == T0 - 24 * j + ((j + s) % 3) - 1
      event(email, pair, cc, ms, conf, at) ==
        [ id |-> 0, user_email |-> email, language_pair |-> pair,
          original_text |-> Str(0, cc, 0), translated_text |-> Str(0, cc, 0),
          character_count |-> cc, translation_time_ms |-> ms,
          confidence_score |-> conf, created_at |-> at ]
      slot(k) ==
        LET j == n - ((k - 1) \div 3)
        IN IF (k - 1) % 3 = 0
           THEN [keep |-> j % 10 # 5 /\ j % 4 \in {2, 3},
                 row |-> event("u1", <<"es", "en">>, 3, 180, Rat(85, 100), ts(j) - 5)]
           ELSE IF (k - 1) % 3 = 1
           THEN [keep |-> j % 10 # 5 /\ j % 5 = 2,
                 row |-> event("u2", <<"en", "es">>, 4, 120, Rat(95, 100), ts(j))]
           ELSE [keep |-> j % 10 # 5,
                 row |-> event("u1", <<"en", "es">>, 5, 120, Rat(95, 100), ts(j))]
      kept == SelectSeq([k \in 1..(3 * n) |-> slot(k)], LAMBDA x : x.keep)
  IN [ i \in 1..Len(kept) |-> [kept[i].row EXCEPT !.id = i] ]

\* the database in which save_translation has recorded the events ev: the
\* counters of users and the rows of user_language_stats add them up
History(ev) ==
  LET of(email, pair) ==
        { i \in DOMAIN ev : ev[i].user_email = email /\ ev[i].language_pair = pair }
      last(S) == IF S = {} THEN 0 ELSE ev[CHOOSE i \in S : \A j \in S : j <= i].created_at
      stat(email, pair, cc, ms, conf) ==
        [ user_email |-> email, language_pair |-> pair,
          translation_count |-> Cardinality(of(email, pair)),
          character_count |-> cc * Cardinality(of(email, pair)),
          avg_translation_time |-> RatInt(ms),
          total_translation_time |-> ms * Cardinality(of(email, pair)),
          avg_confidence_score |-> conf, favorite_pair |-> FALSE,
          last_used |-> last(of(email, pair)) ]
      rows == << [keep |-> of("u1", <<"en", "es">>) # {},
                  row |-> stat("u1", <<"en", "es">>, 5, 120, Rat(95, 100))],
                 [keep |-> of("u1", <<"es", "en">>) # {},
                  row |-> stat("u1", <<"es", "en">>, 3, 180, Rat(85, 100))],
                 [keep |-> of("u2", <<"en", "es">>) # {},
                  row |-> stat("u2", <<"en", "es">>, 4, 120, Rat(95, 100))] >>
      kept == SelectSeq(rows, LAMBDA x : x.keep)
  IN [ users |->
         [ e \in {"u1", "u2"} |->
             [ total_translations |->
                 Cardinality(of(e, <<"en", "es">>)) + Cardinality(of(e, <<"es", "en">>)),
               total_characters |->
                 IF e = "u1"
                 THEN 5 * Cardinality(of(e, <<"en", "es">>))
                        + 3 * Cardinality(of(e, <<"es", "en">>))
                 ELSE 4 * Cardinality(of(e, <<"en", "es">>)) ] ],
       translations |-> ev, next_id |-> Len(ev) + 1,
       stats |-> [ i \in 1..Len(kept) |-> kept[i].row ],
       system_logs |-> <<>> ]

StatDbs ==
  { History(HistoryEvents(n, s)) : n \in 0..MaxHistoryDays, s \in 0..2 }
    \cup {DbWithFavorite}

\* a statistics request arrives at T0 at a database with some history
InitStats ==
  /\ DATABASE_AVAILABLE = TRUE
  /\ db \in StatDbs
  /\ durable = db
  /\ db0 = db
  /\ IdleRequests
  /\ OtherInit

\* one of the statistics requests
NextStats ==
  GetStatistics \/ GetDailyAnalytics \/ GetLanguageAnalytics \/ GetDashboardData

SpecStats == InitStats /\ [][NextStats]_vars

\* ===================================================================== claims
Done(r) == pc[r] = "done"

\* a provider result that carries a text with something other than whitespace
NonEmptyText(res) == res.kind = "obj" /\ res.text.kind = "str" /\ res.text.core > 0

\* the text without its leading and trailing whitespace
Trimmed(t) == [kind |-> "str", lead |-> 0, core |-> t.core, trail |-> 0]

\* the provider failed on every one of five calls (a call that returns a
\* non-empty text leaves it in result, a call that raises leaves result as
\* it was)
FiveFailures(r) == calls[r] = 5 /\ ~NonEmptyText(result[r])

\* the translations row with the given id is committed
Recorded(id) == \E i \in DOMAIN durable.translations : durable.translations[i].id = id

StorageFaultAt(r, stmt) == <<stmt, "storage">> \in raised[r]

\* C1: when the k-th provider call (k <= 5) is the first to return a non-empty
\* text, the request ends with 200 and that call's trimmed text after exactly
\* k calls, and the response equals the one of a request whose first call
\* returned that result (nothing in it tells of the failed attempts).
C1_RetriesInvisible ==
  \A r \in Req :
    (Done(r) /\ NonEmptyText(result[r])) =>
      /\ calls[r] = attempt[r] + 1
      /\ calls[r] <= 5
      /\ resp[r] =
           [ status |-> 200, success |-> TRUE, error |-> "",
             translated_text |-> Trimmed(result[r].text),
             translation_time_ms |-> last_call_ms[r],
             character_count |-> Len_(text[r]),
             database_saved |-> DATABASE_AVAILABLE ]

\* C2: when the provider has failed on all 5 attempts the request has ended
\* with exactly the 503 "temporarily unavailable" response and nothing was
\* written: no translations row, no users counter, no user_language_stats row.
C2_ExhaustedUnavailableNoWrites ==
  \A r \in Req :
    FiveFailures(r) =>
      /\ Done(r)
      /\ resp[r] = ErrorResponse(503, UNAVAILABLE)
      /\ appended[r] = <<>> /\ aggregated[r] = <<>>
      /\ db = db0 /\ durable = db0

C2_Witness ==
  \E r \in Req : FiveFailures(r) /\ Done(r) /\ db0 = DbWithHistory /\ DATABASE_AVAILABLE

\* C3: the waits slept after failed attempts 1, 2, 3, 4 are 2, 4, 8, 16 seconds,
\* each before the next attempt; a failed attempt 5 is followed by no sleep; a
\* request sleeps at most 4 times and at most 30 seconds in total.
RECURSIVE SumSeq(_)
SumSeq(q) == IF q = <<>> THEN 0 ELSE Head(q) + SumSeq(Tail(q))

C4_InvalidResultIsFailure ==
  [][\A r \in Req :
       (calls'[r] = calls[r] + 1 /\ ~NonEmptyText(result'[r])) =>
          /\ pc'[r] # "post_loop"
          /\ resp'[r].status # 200
          /\ attempt[r] < 4 =>
               /\ pc'[r] = "sleep"
               /\ wait_time'[r] = 2 * 2 ^ attempt[r]
               /\ resp'[r] = resp[r]
          /\ attempt[r] = 4 =>
               /\ pc'[r] = "done"
               /\ resp'[r] = ErrorResponse(503, UNAVAILABLE)]_vars

C4_Witness ==
  \E r \in Req :
    /\ pc[r] = "sleep" /\ attempt[r] = 1
    /\ result[r] = Obj(Str(2, 0, 0), <<0, 1>>)

\* the bounds of the retry loop: at most 5 provider calls, an attempt counter
\* that starts at 0, counts the retried failures and stays within 0..4
C5_Bounded ==
  \A r \in Req :
    /\ calls[r] <= 5
    /\ attempt[r] \in 0..4
    /\ attempt[r] = Len(sleeps[r])
    /\ pc[r] = "idle" => attempt[r] = 0 /\ calls[r] = 0
    /\ Done(r) => resp[r].status \in {200, 400, 500, 503}

\* C5 (whole claim): the bounds above hold throughout, the attempt counter only
\* ever grows by one, at the retry after a failed attempt, and the request of
\* the fair handler reaches its response.
C5_Terminates ==
  /\ []C5_Bounded
  /\ [][\A r \in Req : attempt'[r] = attempt[r] \/
          (attempt'[r] = attempt[r] + 1 /\ pc[r] = "sleep" /\ ~NonEmptyText(result[r]))]_vars
  /\ <>Done(1)

C5_Witness ==
  \E r \in Req : Done(r) /\ calls[r] = 5 /\ attempt[r] = 4 /\ resp[r].status = 200

\* C6: a request whose text is empty or blank, or longer than MAX_TEXT_LENGTH
\* after trimming, or that names no language, or whose source or target code
\* is not in the language table, ends at once with 400: no provider call, no
\* sleep, no write.  A text of exactly MAX_TEXT_LENGTH characters is accepted.
\* (Bodies whose text is a string or is missing.)
EmptyOrBlank(in) == in.text.kind = "absent" \/ in.text.core = 0

TooLong(in) == in.text.core > MAX_TEXT_LENGTH

BadLanguage(code, name) ==
  \/ code = NoneVal /\ name = NoneVal
  \/ code # NoneVal /\ code \notin DOMAIN LANGUAGES
  \/ code = NoneVal /\ name # NoneVal /\ \A c \in DOMAIN LANGUAGES : LANGUAGES[c] # name

InvalidInput(in) ==
  \/ EmptyOrBlank(in)
  \/ TooLong(in)
  \/ BadLanguage(in.source_lang, in.source_lang_name)
  \/ BadLanguage(in.target_lang, in.target_lang_name)

C6_InvalidInputRejected ==
  \A r \in Req :
    (pc[r] # "idle" /\ input[r].has_data /\ input[r].text.kind # "null") =>
      /\ InvalidInput(input[r]) =>
           /\ Done(r)
           /\ resp[r].status = 400 /\ ~resp[r].success
           /\ calls[r] = 0 /\ sleeps[r] = <<>>
           /\ appended[r] = <<>> /\ aggregated[r] = <<>>
           /\ db = db0 /\ durable = db0
      /\ ~InvalidInput(input[r]) => resp[r].status # 400

C6_Witness ==
  \E r \in Req :
    /\ Done(r) /\ resp[r].status = 400
    /\ input[r].text = Str(0, MAX_TEXT_LENGTH + 1, 0)
    /\ input[r].source_lang = "en" /\ input[r].target_lang = "es"

\* C7: the latency returned to the caller and stored with the event is the
\* elapsed time of the successful attempt alone, without the earlier failed
\* attempts and the sleeps between them.
C7_LatencyOfSuccessfulAttempt ==
  \A r \in Req :
    (Done(r) /\ resp[r].status = 200) =>
      /\ resp[r].translation_time_ms = last_call_ms[r]
      /\ \A i \in DOMAIN db.translations :
           (appended[r] # <<>> /\ db.translations[i].id = appended[r][1]) =>
              db.translations[i].translation_time_ms = last_call_ms[r]

\* C8: when the provider succeeded and the INSERT INTO translations raised a
\* storage error, the response does not report success.
C8_AppendFailureSurfaced ==
  \A r \in Req :
    (Done(r) /\ DATABASE_AVAILABLE /\ StorageFaultAt(r, "sv_insert")) =>
      /\ ~resp[r].success
      /\ resp[r].status # 200

\* C9: with the database available and no storage error, every request that
\* came out of the retry loop with a translation has appended exactly one
\* translations row and then run the aggregate update exactly once, whatever
\* the interleaving with other requests (of the same, not yet existing user).
C9_ExactlyOneAppendAndAggregate ==
  \A r \in Req :
    (Done(r) /\ resp[r].status = 200 /\ DATABASE_AVAILABLE
       /\ \A x \in raised[r] : x[2] # "storage") =>
      /\ Len(appended[r]) = 1
      /\ aggregated[r] = <<"users", "stats">>

\* C10: when the translations row was inserted and the users update or the
\* user_language_stats upsert then raised a storage error, the row stays
\* committed and the request still answers 200 / success.
C10_AggregateFailureSwallowed ==
  \A r \in Req :
    (StorageFaultAt(r, "sv_users") \/ StorageFaultAt(r, "sv_stats")) =>
      /\ Len(appended[r]) = 1
      /\ Recorded(appended[r][1])
      /\ pc[r] \in {"log", "respond", "done"}
      /\ Done(r) => resp[r].status = 200 /\ resp[r].success

C10_Witness ==
  \E r \in Req : Done(r) /\ StorageFaultAt(r, "sv_stats") /\ resp[r].status = 200

\* ------------------------------------------------- aggregation (C11 .. C16)
\* the language pair that request r translates
PairOf(r) == <<source_lang[r], target_lang[r]>>

Pairs == {<<"en", "es">>, <<"es", "en">>}

\* the translations rows of a user, and those of one of the user's pairs
EventsOfUser(d, email) ==
  { i \in DOMAIN d.translations : d.translations[i].user_email = email }

EventsOfPair(d, email, pair) ==
  { i \in EventsOfUser(d, email) : d.translations[i].language_pair = pair }

RECURSIVE SumChars(_, _)
SumChars(d, S) ==
  IF S = {} THEN 0
  ELSE LET i == CHOOSE x \in S : TRUE
       IN d.translations[i].character_count + SumChars(d, S \ {i})

RECURSIVE SumMs(_, _)
SumMs(d, S) ==
  IF S = {} THEN 0
  ELSE LET i == CHOOSE x \in S : TRUE
       IN d.translations[i].translation_time_ms + SumMs(d, S \ {i})

RECURSIVE SumConfidence(_, _)
SumConfidence(d, S) ==
  IF S = {} THEN <<0, 1>>
  ELSE LET i == CHOOSE x \in S : TRUE
       IN RatAdd(d.translations[i].confidence_score, SumConfidence(d, S \ {i}))

\* save_translation has returned in every request
AllSaved == \A r \in Req : pc[r] \in {"log", "respond", "done"}

\* C11: whenever no save_translation call is under way, also after one of them
\* was cut short by a storage error, every user's total_translations is the
\* number of the user's committed translations rows and total_characters is
\* the sum of their character_count.
C11_CountersMatchEvents ==
  AllSaved =>
    \A e \in DOMAIN durable.users :
      /\ durable.users[e].total_translations = Cardinality(EventsOfUser(durable, e))
      /\ durable.users[e].total_characters = SumChars(durable, EventsOfUser(durable, e))

\* the requests whose upsert of the (u1, pair) row has run
Upserted(pair) ==
  { r \in Req :
      /\ user_email[r] = "u1" /\ PairOf(r) = pair
      /\ aggregated[r] # <<>> /\ aggregated[r][Len(aggregated[r])] = "stats" }

RECURSIVE SumLatency(_)
SumLatency(S) ==
  IF S = {} THEN 0
  ELSE LET r == CHOOSE x \in S : TRUE IN translation_time_ms[r] + SumLatency(S \ {r})

RECURSIVE SumCharCount(_)
SumCharCount(S) ==
  IF S = {} THEN 0
  ELSE LET r == CHOOSE x \in S : TRUE IN Len_(text[r]) + SumCharCount(S \ {r})

RECURSIVE SumConf(_)
SumConf(S) ==
  IF S = {} THEN <<0, 1>>
  ELSE LET r == CHOOSE x \in S : TRUE IN RatAdd(result[r].confidence, SumConf(S \ {r}))

\* the events of (u1, pair) that were there when the behaviour started
BaseEvents(pair) == EventsOfPair(db0, "u1", pair)

\* C12: for every pair of u1, whatever the interleaving of the concurrent
\* save_translation calls: the row of the pair has counted every event whose
\* upsert has run (count = n, total_translation_time = sum of the latencies,
\* avg_translation_time = sum / n, so avg = total / count after every update);
\* and when all calls have returned without a storage error, n is the number
\* of the pair's recorded events and the total is the sum of their latencies.
C12_NoLostUpdate ==
  \A pair \in Pairs :
    LET n == Cardinality(BaseEvents(pair)) + Cardinality(Upserted(pair))
        total == SumMs(db0, BaseEvents(pair)) + SumLatency(Upserted(pair))
    IN /\ n > 0 =>
            /\ StatRows(db, "u1", pair) # {}
            /\ \A i \in StatRows(db, "u1", pair) :
                 /\ db.stats[i].translation_count = n
                 /\ db.stats[i].total_translation_time = total
                 /\ db.stats[i].avg_translation_time = Rat(total, n)
                 /\ db.stats[i].avg_translation_time =
                      Rat(db.stats[i].total_translation_time, db.stats[i].translation_count)
       /\ (AllSaved /\ faults = 0) =>
            /\ n = Cardinality(EventsOfPair(db, "u1", pair))
            /\ total = SumMs(db, EventsOfPair(db, "u1", pair))

\* two calls on the pair that u1 has used once before, with latencies 120 and
\* 180, have both returned
C12_Witness ==
  /\ AllSaved /\ faults = 0 /\ db0 = DbWithHistory
  /\ \E r, q \in Req :
       /\ Upserted(<<"en", "es">>) = {r, q}
       /\ translation_time_ms[r] = 120 /\ translation_time_ms[q] = 180
       /\ appended[q][1] < appended[r][1]

\* C13: the first event of a (user, pair) creates the one row of the key with
\* count 1, the event's character count, latency (as average and as total) and
\* confidence; every later event updates that row and never adds a second one:
\* character_count is the sum of the character counts and avg_confidence_score
\* the mean of the confidences of the events whose upsert has run.
C13_FirstCreatesLaterUpdate ==
  \A pair \in Pairs :
    LET rows == StatRows(db, "u1", pair)
        ups == Upserted(pair)
        n == Cardinality(BaseEvents(pair)) + Cardinality(ups)
    IN /\ Cardinality(rows) <= 1
       /\ n = 0 => rows = {}
       /\ n > 0 =>
            \E i \in rows :
              /\ db.stats[i].translation_count = n
              /\ db.stats[i].character_count =
                   SumChars(db0, BaseEvents(pair)) + SumCharCount(ups)
              /\ db.stats[i].avg_confidence_score =
                   RatDivInt(RatAdd(SumConfidence(db0, BaseEvents(pair)), SumConf(ups)), n)
       /\ (BaseEvents(pair) = {} /\ Cardinality(ups) = 1) =>
            \E i \in rows : \E r \in ups :
              /\ db.stats[i].translation_count = 1
              /\ db.stats[i].character_count = Len_(text[r])
              /\ db.stats[i].avg_translation_time = <<translation_time_ms[r], 1>>
              /\ db.stats[i].total_translation_time = translation_time_ms[r]
              /\ db.stats[i].avg_confidence_score = result[r].confidence

\* the example: confidences 0.95 then 0.85 and latencies 120 then 180 on a new
\* pair give count 2, average confidence 0.90 and average latency 150
C13_Witness ==
  /\ db0 = DbWithUser /\ Cardinality(Upserted(<<"en", "es">>)) = 2
  /\ \E r, q \in Req :
       /\ result[r].confidence = <<19, 20>> /\ translation_time_ms[r] = 120
       /\ result[q].confidence = <<17, 20>> /\ translation_time_ms[q] = 180
       /\ appended[r][1] < appended[q][1]
  /\ \E i \in DOMAIN db.stats :
       /\ db.stats[i].translation_count = 2
       /\ db.stats[i].avg_confidence_score = <<9, 10>>
       /\ db.stats[i].avg_translation_time = <<150, 1>>
       /\ db.stats[i].total_translation_time = 300

\* a step of save_translation
SaveStep ==
  \E r \in Req : pc[r] \in {"sv_insert", "sv_users", "sv_stats"} /\ pc'[r] # pc[r]

\* C16: a step of save_translation leaves favorite_pair of every existing
\* user_language_stats row as it was, and a row that it creates has
\* favorite_pair = FALSE.
C16_SaveKeepsFavorite ==
  [][SaveStep =>
       /\ \A i \in DOMAIN db.stats :
            /\ i \in DOMAIN db'.stats
            /\ db'.stats[i].user_email = db.stats[i].user_email
            /\ db'.stats[i].language_pair = db.stats[i].language_pair
            /\ db'.stats[i].favorite_pair = db.stats[i].favorite_pair
       /\ \A i \in DOMAIN db'.stats \ DOMAIN db.stats :
            ~db'.stats[i].favorite_pair]_vars

\* an event on u1's favorite pair and one on another pair have been aggregated
C16_Witness ==
  /\ db0 = DbWithFavorite /\ Upserted(<<"en", "es">>) # {}
  /\ Upserted(<<"es", "en">>) # {}
  /\ \E i \in DOMAIN db.stats :
          db.stats[i].favorite_pair /\ db.stats[i].translation_count = 2

\* ------------------------------------------------------ favorites (C14, C15)
\* the pairs that the user's user_language_stats rows mark as favorite
FavoritesOf(d, email) ==
  { d.stats[i].language_pair :
      i \in { j \in DOMAIN d.stats :
                d.stats[j].user_email = email /\ d.stats[j].favorite_pair } }

\* C14: in every reachable state every user has at most one favorite row,
\* whatever the interleaving of the statements of concurrent favorite requests.
C14_AtMostOneFavorite ==
  \A e \in Emails :
    Cardinality({ i \in DOMAIN db.stats :
                    db.stats[i].user_email = e /\ db.stats[i].favorite_pair }) <= 1

\* C15: when a request that marks pair B as favorite has been answered with
\* success for a user whose favorite was A # B, and no other request has
\* arrived meanwhile, exactly one of A and B is the user's favorite.
C15_ExactlyOneOfTwo ==
  \A r \in Req :
    (/\ fav[r].pc = "done" /\ fav[r].success /\ fav[r].is_favorite
     /\ \A q \in Req \ {r} : fav[q].pc = "idle"
     /\ FavoritesOf(db0, fav[r].user_email) # {}
     /\ fav[r].language_pair \notin FavoritesOf(db0, fav[r].user_email)) =>
       Cardinality(FavoritesOf(db, fav[r].user_email)
                     \cap (FavoritesOf(db0, fav[r].user_email) \cup {fav[r].language_pair})) = 1

\* ------------------------------------------------------------- sleep (C17)
\* everything that belongs to the handler of request r
Locals(r) ==
  << pc[r], input[r], text[r], source_lang[r], target_lang[r], attempt[r], result[r],
     wait_time[r], elapsed[r], translated_text[r], translation_time_ms[r],
     user_email[r], resp[r], calls[r], sleeps[r], last_call_ms[r] >>

\* C17: while a request sleeps between two attempts, every other request that
\* has not been answered yet can take its next step (arrive, call the
\* provider, sleep, respond); a step of one request, the end of a sleep
\* included, changes nothing of another request (attempt counter, result,
\* response); and a request that is answered 200 has made attempt + 1 calls
\* and slept only its own waits.
C17_SleepSuspendsOnlyItself ==
  /\ [](\A r \in Req : \A q \in Req \ {r} :
          (pc[r] = "sleep" /\ ~Done(q)) => ENABLED Handle(q))
  /\ [][\A r \in Req : \A q \in Req \ {r} :
          Locals(r)' # Locals(r) => Locals(q)' = Locals(q)]_vars
  /\ [](\A q \in Req :
          (Done(q) /\ resp[q].status = 200) =>
             /\ calls[q] = attempt[q] + 1
             /\ sleeps[q] = SubSeq(<<2, 4, 8, 16>>, 1, attempt[q]))

\* one request is in its first sleep while another one, which had to retry as
\* well, has been answered
C17_Witness ==
  \E r \in Req : \E q \in Req \ {r} :
    /\ pc[r] = "sleep" /\ attempt[r] = 0
    /\ Done(q) /\ resp[q].status = 200 /\ attempt[q] = 1

\* ------------------------------------------------------- trend (C18, C19)
\* the most recent 7 points of a series (all of them if there are fewer) and
\* the up to 7 points before them (points 8..14)
RecentPoints(q) == SubSeq(q, 1, IF Len(q) < 7 THEN Len(q) ELSE 7)

PriorPoints(q) == SubSeq(q, 8, IF Len(q) < 14 THEN Len(q) ELSE 14)

AbsVal(x) == IF x < 0 THEN -x ELSE x

Zero == <<0, 1>>

\* C18: the returned trend percentage is 0 when the series has fewer than 2
\* days and when the points before the most recent 7 sum up to zero (their
\* mean is zero); the computation never divides by zero.
C18_TrendZero ==
  analytics.returned =>
    /\ analytics.trend_percentage[2] # 0
    /\ Len(daily_data) < 2 => analytics.trend_percentage = Zero
    /\ (Len(daily_data) > 7 /\ SumSeq(PriorPoints(daily_data)) = 0) =>
         analytics.trend_percentage = Zero

\* the trend of a single active day
C18_Witness ==
  /\ analytics.returned /\ daily_data = <<3>>
  /\ analytics.trend_percentage = Zero

\* numerator and denominator of (recentMean - priorMean) / priorMean * 100 for
\* a series of more than 7 points: recentMean = R / 7, priorMean = P / k
FormulaNum(q) ==
  (SumSeq(RecentPoints(q)) * Len(PriorPoints(q)) - 7 * SumSeq(PriorPoints(q))) * 100

FormulaDen(q) == 7 * SumSeq(PriorPoints(q))

\* C19 (as stated): the returned trend percentage is 0 for a series of at
\* most 7 points and otherwise, with a positive prior mean, equals
\* (recentMean - priorMean) / priorMean * 100.
C19_TrendIsFormula ==
  analytics.returned =>
    /\ Len(daily_data) <= 7 => analytics.trend_percentage = Zero
    /\ (Len(daily_data) > 7 /\ SumSeq(PriorPoints(daily_data)) > 0) =>
         analytics.trend_percentage[1] * FormulaDen(daily_data) =
           FormulaNum(daily_data) * analytics.trend_percentage[2]

\* C19 (amended): the returned trend percentage is 0 for a series of at most 7
\* points and otherwise, with a positive prior mean, is
\* (recentMean - priorMean) / priorMean * 100 rounded to two decimals: a
\* multiple of 0.01 that is at most 0.005 away from the value of the formula.
C19_TrendIsRoundedFormula ==
  analytics.returned =>
    /\ Len(daily_data) <= 7 => analytics.trend_percentage = Zero
    /\ (Len(daily_data) > 7 /\ SumSeq(PriorPoints(daily_data)) > 0) =>
         /\ analytics.trend_percentage[2] > 0
         /\ 100 % analytics.trend_percentage[2] = 0
         /\ 200 * AbsVal(analytics.trend_percentage[1] * FormulaDen(daily_data)
                         - FormulaNum(daily_data) * analytics.trend_percentage[2])
              <= analytics.trend_percentage[2] * FormulaDen(daily_data)

\* ten days, one translation on each of the last seven and three on each of
\* the three days before: means 1 and 3, -66.666... returned as -66.67
C19_Witness ==
  /\ analytics.returned
  /\ daily_data = <<1, 1, 1, 1, 1, 1, 1, 3, 3, 3>>
  /\ analytics.trend_percentage = <<-6667, 100>>

\* ------------------------------------------------------ daily activity (C20)
\* the user's events inside the window of the request, and their days
InWindow ==
  { i \in EventsOfUser(db, statistics.user_email) :
      \/ statistics.period = "all"
      \/ /\ statistics.period = "7" /\ db.translations[i].created_at >= now - 7 * 24
      \/ /\ statistics.period = "30" /\ db.translations[i].created_at >= now - 30 * 24
      \/ /\ statistics.period = "90" /\ db.translations[i].created_at >= now - 90 * 24 }

DayOfEvent(i) == db.translations[i].created_at \div 24

ActiveDays == { DayOfEvent(i) : i \in InWindow }

C20_WitnessPartialDay ==
  /\ statistics.returned /\ statistics.found /\ statistics.period = "30"
  /\ \E k \in 1..Len(statistics.daily_activity) :
       /\ statistics.daily_activity[k].date = 970
       /\ statistics.daily_activity[k].translations = 1
       /\ Cardinality({ i \in EventsOfUser(db, statistics.user_email) :
                          DayOfEvent(i) = 970 }) = 2

\* -------------------------------------------------- top language pairs (C21)
\* the user's pairs inside the window, their events and their last use
PairsInWindow == { db.translations[i].language_pair : i \in InWindow }

EventsInWindow(pair) == { i \in InWindow : db.translations[i].language_pair = pair }

LastUsedInWindow(pair) ==
  LET S == EventsInWindow(pair)
  IN db.translations[CHOOSE i \in S : \A j \in S :
       db.translations[j].created_at <= db.translations[i].created_at].created_at

\* C21: the top language pairs of a known user are the user's pairs inside the
\* window (the first 20 of them), each once and with its number of events, in
\* descending order of count, and of two pairs with the same count the one
\* used more recently comes first.
C21_TopPairsOrdered ==
  (statistics.returned /\ statistics.found) =>
    LET top == statistics.top_language_pairs
    IN /\ Len(top) = Min(20, Cardinality(PairsInWindow))
       /\ \A k \in 1..Len(top) :
            /\ top[k].language_pair \in PairsInWindow
            /\ top[k].count = Cardinality(EventsInWindow(top[k].language_pair))
       /\ \A a, b \in 1..Len(top) :
            a < b =>
              /\ top[a].language_pair # top[b].language_pair
              /\ \/ top[a].count > top[b].count
                 \/ /\ top[a].count = top[b].count
                    /\ LastUsedInWindow(top[a].language_pair)
                         >= LastUsedInWindow(top[b].language_pair)

\* ------------------------------------------------------ hourly pattern (C22)
HoursInWindow == { db.translations[i].created_at % 24 : i \in InWindow }

\* C22 as stated: the hourly pattern of a known user has a bucket for every
\* hour 0..23 (zero without activity), once each and in ascending order, and
\* the bucket counts add up to the overall total of the window.
C22_AllHoursPresent ==
  (statistics.returned /\ statistics.found) =>
    LET hp == statistics.hourly_patterns
    IN /\ \A h \in 0..23 : \E k \in 1..Len(hp) : hp[k].hour = h
       /\ \A k \in 1..(Len(hp) - 1) : hp[k].hour < hp[k + 1].hour
       /\ \A k \in 1..Len(hp) :
            hp[k].translations =
              Cardinality({ i \in InWindow : db.translations[i].created_at % 24 = hp[k].hour })
       /\ SumSeq([k \in 1..Len(hp) |-> hp[k].translations]) = statistics.total_translations

\* C22: the hourly pattern of a known user has a bucket exactly for the hours
\* of day in which the user has an event inside the window (an hour without
\* activity has no bucket), in ascending order of hour and so once each; the
\* count of a bucket is the number of the window's events in that hour, and
\* the counts add up to the overall total of the window.
C22_HourlyPattern ==
  (statistics.returned /\ statistics.found) =>
    LET hp == statistics.hourly_patterns
    IN /\ { hp[k].hour : k \in 1..Len(hp) } = HoursInWindow
       /\ HoursInWindow \subseteq 0..23
       /\ \A k \in 1..(Len(hp) - 1) : hp[k].hour < hp[k + 1].hour
       /\ \A k \in 1..Len(hp) :
            /\ hp[k].translations > 0
            /\ hp[k].translations =
                 Cardinality({ i \in InWindow : db.translations[i].created_at % 24 = hp[k].hour })
       /\ SumSeq([k \in 1..Len(hp) |-> hp[k].translations]) = statistics.total_translations
       /\ statistics.total_translations = Cardinality(InWindow)

\* six hours of day with activity, eighteen without
C22_Witness ==
  /\ statistics.returned /\ statistics.found /\ statistics.period = "90"
  /\ Len(statistics.hourly_patterns) = 6
  /\ statistics.hourly_patterns[1].hour = 4
  /\ statistics.hourly_patterns[6].hour = 11
  /\ statistics.total_translations > 100

\* -------------------------------------------- immutability of events (C23)
Events(d) == { d.translations[i] : i \in DOMAIN d.translations }

EventIds(d) == { d.translations[i].id : i \in DOMAIN d.translations }

StatKeys(d) == { <<d.stats[i].user_email, d.stats[i].language_pair>> : i \in DOMAIN d.stats }

\* the two DELETE statements of a history clear going through
ClearDeletesEvents == clear.pc = "cl_translations" /\ clear'.pc = "cl_users"

ClearDeletesStats == clear.pc = "cl_stats" /\ clear'.pc = "done" /\ clear'.status = 200

C24_ReadsChangeNothing ==
  [][ readVars' # readVars =>
        /\ db'.translations = db.translations
        /\ db'.stats = db.stats
        /\ db'.users = db.users
        /\ durable' = durable ]_vars

\* the dashboard of u1 has been read from a long history, which is as before
C24_Witness ==
  /\ dashboard_data.returned /\ dashboard_data.found
  /\ dashboard_data.user_email = "u1"
  /\ dashboard_data.total_translations > 100
  /\ dashboard_data.week_translations > 5
  /\ db = db0

\* ----------------------------------------------------- history clear (C25)
\* the save and the favorite request have not begun
ClearAlone == pc[1] = "sv_insert" /\ fav[1].pc = "idle"

\* C25: a history-clear request whose confirm parameter is not "true" makes no
\* step that changes the database and is answered with 400; and a request
\* that has answered 200, no other request having acted, was confirmed and
\* has left its user without events, with both counters 0 and without rows
\* of user_language_stats, and its deleted_count is the number of events that
\* the user had.
C25_ClearNeedsConfirm ==
  /\ [][ (clear' # clear /\ clear'.confirm \notin {"true", "True"}) =>
           (db' = db /\ durable' = durable /\ clear'.pc = "done" /\ clear'.status = 400)
       ]_vars
  /\ [](clear.pc # "idle" /\ clear.confirm \notin {"true", "True"}
          => clear.pc = "done" /\ clear.status = 400)
  /\ []((clear.pc = "done" /\ clear.status = 200 /\ ClearAlone) =>
          /\ clear.confirm \in {"true", "True"}
          /\ EventsOfUser(db, clear.user_email) = {}
          /\ clear.user_email \in DOMAIN db.users =>
               /\ db.users[clear.user_email].total_translations = 0
               /\ db.users[clear.user_email].total_characters = 0
          /\ \A i \in DOMAIN db.stats : db.stats[i].user_email # clear.user_email
          /\ clear.deleted_count = Cardinality(EventsOfUser(db0, clear.user_email))
          /\ durable = db)

\* the confirmed clear of u1 has deleted two events; those of u2 are left
C25_Witness ==
  /\ clear.pc = "done" /\ clear.status = 200 /\ ClearAlone
  /\ clear.user_email = "u1" /\ clear.deleted_count = 2
  /\ db0.users["u1"].total_translations = 2
  /\ db.users["u1"].total_translations = 0
  /\ Len(db.translations) = 1 /\ Len(db.stats) = 1

\* ------------------------------------------- clear against a save (C26)
\* C26: when a history clear and a save of the same user have both finished
\* without an error, the user's total_translations is the number of the
\* user's events, and for each pair the user has a row of user_language_stats
\* exactly if the user has events of the pair, with their number as its count.
C26_ClearAndSaveConsistent ==
  (/\ clear.pc = "done" /\ clear.status = 200
   /\ pc[1] = "log" /\ raised[1] = {}
   /\ user_email[1] = clear.user_email) =>
    LET u == clear.user_email
    IN /\ db.users[u].total_translations = Cardinality(EventsOfUser(db, u))
       /\ \A pair \in Pairs :
            /\ StatRows(db, u, pair) # {} <=> EventsOfPair(db, u, pair) # {}
            /\ \A i \in StatRows(db, u, pair) :
                 db.stats[i].translation_count = Cardinality(EventsOfPair(db, u, pair))

\* ------------------------------------------------ the other users (C27)
\* all that the database holds of user v
DataOf(d, v) ==
  [ events |-> { e \in Events(d) : e.user_email = v },
    counters |-> IF v \in DOMAIN d.users THEN {d.users[v]} ELSE {},
    stats |-> { d.stats[i] : i \in { j \in DOMAIN d.stats : d.stats[j].user_email = v } } ]

\* C27: a step of the save of user U, of the favorite request of U or of the
\* history clear of U leaves the events, the counters and the
\* user_language_stats rows (favorite flags included) of every other user as
\* they were, and a step of the save leaves the rows of user_language_stats
\* of all pairs but its own as they were.
C27_OtherUsersUntouched ==
  [][ /\ \A v \in {"u1", "u2"} :
           \/ DataOf(db', v) = DataOf(db, v)
           \/ pc' # pc /\ user_email[1] = v
           \/ fav' # fav /\ fav[1].user_email = v
           \/ clear' # clear /\ clear.user_email = v
      /\ pc' # pc =>
           \A i \in DOMAIN db.stats :
             db.stats[i].language_pair # PairOf(1) =>
               \E j \in DOMAIN db'.stats : db'.stats[j] = db.stats[i] ]_vars

\* u1 has cleared the history and set a favorite, u2 has saved an event: each
\* has what the own requests made, u2 still with the favorite
C27_Witness ==
  /\ clear.pc = "done" /\ clear.status = 200 /\ clear.user_email = "u1"
  /\ fav[1].pc = "done" /\ fav[1].status = 200 /\ fav[1].user_email = "u1"
  /\ pc[1] = "log" /\ raised[1] = {} /\ user_email[1] = "u2"
  /\ DataOf(db, "u1").events = {}
  /\ Cardinality(DataOf(db, "u2").events) = 2
  /\ \E row \in DataOf(db, "u2").stats : row.favorite_pair

\* --------------------------------------- favorite of an unused pair (C28)
\* C28: when the only favorite request, one that marks pair P as favorite,
\* has been answered, then P is the user's favorite if the answer is a
\* success, and a favorite that the user had is still one unless P is now
\* the favorite.
C28_SuccessMeansFavorite ==
  \A r \in Req :
    (/\ fav[r].pc = "done" /\ fav[r].status \in {200, 500} /\ fav[r].is_favorite
     /\ \A q \in Req \ {r} : fav[q].pc = "idle") =>
      LET u == fav[r].user_email
      IN /\ fav[r].success => fav[r].language_pair \in FavoritesOf(db, u)
         /\ FavoritesOf(db0, u) \subseteq FavoritesOf(db, u)
              \/ fav[r].language_pair \in FavoritesOf(db, u)

\* ------------------------------------------------ batch translation (C29)
\* C29: the provider has been called once for each text that has an entry,
\* in the order of the texts, and no request has slept; a batch answered with
\* 200 has one entry for each text, in order and with the text as original;
\* the entry of a text whose call raised (or returned nothing that has a
\* text) has no translation and has the error, whatever happened to the texts
\* before it, and no other entry has an error; and the database holds what it
\* held before the request.
C29_BatchOncePerText ==
  /\ Len(batch.calls) = Len(batch.translations)
  /\ Len(batch.calls) <= Len(batch.texts)
  /\ \A k \in 1..Len(batch.calls) :
       /\ batch.calls[k].text = batch.texts[k]
       /\ batch.translations[k].original = batch.texts[k]
       /\ batch.calls[k].outcome # "obj" =>
            /\ batch.translations[k].translated = NullText
            /\ batch.translations[k].has_error
       /\ batch.calls[k].outcome = "obj" => ~batch.translations[k].has_error
  /\ batch.pc = "loop" => Len(batch.calls) < Len(batch.texts)
  /\ (batch.pc = "done" /\ batch.status = 200) =>
       Len(batch.translations) = Len(batch.texts)
  /\ \A r \in Req : sleeps[r] = <<>> /\ wait_time[r] = 0
  /\ db = db0 /\ durable = db0

\* three texts; the call for the second one raised, the others succeeded
C29_Witness ==
  /\ batch.pc = "done" /\ batch.status = 200
  /\ Len(batch.texts) = 3
  /\ batch.calls[1].outcome = "obj" /\ batch.translations[1].translated = Str(1, 6, 1)
  /\ batch.calls[2].outcome = "raise" /\ batch.translations[2].has_error
  /\ batch.calls[3].outcome = "obj" /\ ~batch.translations[3].has_error
  /\ Len(db.translations) = 1

\* ------------------------------------------- the post-loop fallbacks (C30)
\* C30: a request that is past the retry loop holds a result that is an
\* object with a text that has a non-blank character; no response carries
\* one of the two fallback messages; and a 503 is the answer to five provider
\* calls of which none gave such a result, with the message of exhaustion.
C30_FallbacksUnreachable ==
  \A r \in Req :
    /\ pc[r] = "post_loop" => NonEmptyText(result[r])
    /\ resp[r].error \notin {INVALID_RESPONSE, EMPTY_RESULT}
    /\ resp[r].status = 503 =>
         /\ resp[r].error = UNAVAILABLE
         /\ calls[r] = 5
         /\ ~NonEmptyText(result[r])

\* the loop is left at the fifth attempt, after four sleeps
C30_Witness ==
  \E r \in Req :
    /\ pc[r] = "post_loop" /\ calls[r] = 5 /\ attempt[r] = 4
    /\ sleeps[r] = <<2, 4, 8, 16>>
    /\ result[r] = Obj(Str(1, 6, 1), Rat(95, 100))

====
